---- MODULE Spec2Model ----
(***************************************************************************)
(* Model of the REST backend: the generic CRUD / query layer               *)
(* (app/v1/crud.py, app/v1/users/crud.py), the pagination schemas          *)
(* (app/v1/schemas.py), the user endpoints (app/v1/users/endpoints.py),    *)
(* concurrent sessions (app/db.py), authorization through OPA             *)
(* (app/auth.py) and the application lifespan (app/main.py), on top of the *)
(* User table (app/v1/users/schemas.py) stored in SQLite or PostgreSQL.    *)
(*                                                                         *)
(* Text is modelled as a sequence of symbols.  A symbol is one character   *)
(* or an indivisible piece of text such as "https://" or "user".           *)
(***************************************************************************)
EXTENDS Integers, Sequences, FiniteSets, TLC

VARIABLES table, clock, nextId, last, pg, flt, sess, resp, dialect, authz, life, rd

vars == <<table, clock, nextId, last, pg, flt, sess, resp, dialect, authz, life, rd>>

----------------------------------------------------------------------------
(* Bounds *)

MaxIds == 2
MaxClock == 1
MaxPage == 3
MaxSize == 2
MaxPageNumber == 4
MaxPageSize == 3
MaxTotItems == 7

----------------------------------------------------------------------------
(* Text helpers *)

\* Python's None
NoneVal == <<"<None>">>

\* str(v) / f-string formatting of a value
PyStr(v) == IF v = NoneVal THEN <<"None">> ELSE v

\* str.lower() / SQL lower() on one symbol
Lower(c) ==
    CASE c = "S" -> "s"
      [] c = "T" -> "t"
      [] c = "I" -> "i"
      [] c = "J" -> "j"
      [] OTHER -> c

LowerStr(s) == [i \in 1..Len(s) |-> Lower(s[i])]

\* needle occurs in hay as a contiguous run
Contains(hay, needle) ==
    \E i \in 0..(Len(hay) - Len(needle)) :
        SubSeq(hay, i + 1, i + Len(needle)) = needle

\* code point order of the symbols used in sortable columns
Rank(c) ==
    CASE c = "/" -> 1
      [] c = "I" -> 2
      [] c = "J" -> 3
      [] c = "S" -> 4
      [] c = "T" -> 5
      [] c = "e" -> 6
      [] c = "https://" -> 7
      [] c = "i" -> 8
      [] c = "j" -> 9
      [] c = "m" -> 10
      [] c = "n" -> 11
      [] c = "s" -> 12
      [] c = "t" -> 13
      [] OTHER -> 14

RECURSIVE StrLess(_, _)
\* a < b in the binary collation of text columns
StrLess(a, b) ==
    IF b = <<>> THEN FALSE
    ELSE IF a = <<>> THEN TRUE
    ELSE IF Rank(Head(a)) # Rank(Head(b)) THEN Rank(Head(a)) < Rank(Head(b))
    ELSE StrLess(Tail(a), Tail(b))

RECURSIVE SplitAt(_, _, _)
\* str.split(sep): cur is the piece being collected
SplitAt(s, sep, cur) ==
    IF s = <<>> THEN <<cur>>
    ELSE IF Head(s) = sep THEN <<cur>> \o SplitAt(Tail(s), sep, <<>>)
    ELSE SplitAt(Tail(s), sep, Append(cur, Head(s)))

Split(s, sep) == SplitAt(s, sep, <<>>)

\* re.search(r"(?<=PREFIX).*", text): the text after the first PREFIX,
\* or <<"<nomatch>">> when PREFIX does not occur
NoMatch == <<"<nomatch>">>

ReSearchAfter(prefix, text) ==
    IF \E i \in 1..Len(text) : text[i] = prefix
    THEN LET i == CHOOSE j \in 1..Len(text) :
                      /\ text[j] = prefix
                      /\ \A k \in 1..(j - 1) : text[k] # prefix
         IN  SubSeq(text, i + 1, Len(text))
    ELSE NoMatch

UpperChars == {"U", "X", "M", "L", "H", "R", "C", "T"}
LowerChars == {"s", "e", "r", "t", "p", "q", "u", "a", "m", "l"}

RECURSIVE SplitCamel(_, _)
\* split_camel_case: a space goes before an upper-case letter that follows a
\* lower-case letter or digit, and before the last upper-case letter of a run
\* that is followed by a lower-case letter
SplitCamel(s, prev) ==
    IF s = <<>> THEN <<>>
    ELSE LET c == Head(s)
             rest == Tail(s)
             boundary ==
                 /\ c \in UpperChars
                 /\ prev # ""
                 /\ \/ prev \notin UpperChars /\ prev # " "
                    \/ /\ prev \in UpperChars
                       /\ rest # <<>>
                       /\ Head(rest) \in LowerChars
         IN  (IF boundary THEN <<" ", c>> ELSE <<c>>) \o SplitCamel(rest, c)

split_camel_case(s) == SplitCamel(s, "")

\* AnyHttpUrl(raw): the validated URL object; the host is lower-cased and an
\* empty path becomes "/"
AnyHttpUrl(raw) ==
    LET hasPath == raw[Len(raw)] = "/"
        host == IF hasPath THEN SubSeq(raw, 2, Len(raw) - 1)
                ELSE SubSeq(raw, 2, Len(raw))
    IN  [scheme |-> raw[1], host |-> LowerStr(host), path |-> <<"/">>]

\* str(url) of a URL object
UrlStr(u) == <<u.scheme>> \o u.host \o u.path

\* HttpUrlType.process_bind_param: the column stores str(value); value is a
\* URL object, or a plain str (a record with the one field str)
process_bind_param(value) ==
    IF "str" \in DOMAIN value THEN value.str ELSE UrlStr(value)

----------------------------------------------------------------------------
(* The User table and the request bodies *)

EntityName == <<"U", "s", "e", "r">>
TableName == "user"
TextColumns == {"sub", "name", "email", "issuer"}


\* UserCreate(**body): a validated item; issuer becomes a URL object
UserCreate(sub, name, email, issuer) ==
    [sub |-> sub, name |-> name, email |-> email, issuer |-> AnyHttpUrl(issuer)]

\* items that reach add_item / update_item: validated request bodies (two of
\* them spell the same issuer differently), and one item built without
\* validation that carries None in name
Items ==
    { UserCreate(<<"s">>, <<"n">>, <<"e">>, <<"https://", "i">>),
      UserCreate(<<"s">>, <<"m">>, <<"e">>, <<"https://", "I", "/">>),
      UserCreate(<<"S", "t">>, <<"n">>, <<"e">>, <<"https://", "i">>),
      UserCreate(<<"s">>, <<"n">>, <<"e">>, <<"https://", "j">>),
      [UserCreate(<<"s">>, <<"n">>, <<"e">>, <<"https://", "i">>)
           EXCEPT !.name = NoneVal] }

\* item.model_dump().get(attr), formatted as the f-string formats it
DumpGetStr(item, attr) ==
    IF Len(attr) = 1 /\ attr[1] \in DOMAIN item
    THEN IF attr[1] = "issuer" THEN process_bind_param(item.issuer)
         ELSE IF attr[1] = "id" THEN <<ToString(item.id)>>
         ELSE PyStr(item[attr[1]])
    ELSE <<"None">>

\* the values bound for the text columns of a row
BoundValues(item) ==
    [sub |-> item.sub, name |-> item.name, email |-> item.email,
     issuer |-> process_bind_param(item.issuer)]

\* a key a token's user info does not carry
Missing == <<"<missing>">>

\* flaat's UserInfos of the request: none is TRUE when check_authentication
\* returned None (AUTHN_MODE unset); subject and issuer are user_info["sub"]
\* and user_info["iss"]
FlaatUserInfos(sub, iss, name, email) ==
    [none |-> FALSE, sub |-> sub, iss |-> iss, name |-> name, email |-> email]

NoUserInfos == [FlaatUserInfos(<<>>, <<>>, Missing, Missing) EXCEPT !.none = TRUE]

\* the tokens a request may carry: two complete ones, the first naming its
\* issuer without a trailing slash, one whose user info has no name, and no
\* token at all
CurrentUserInfos ==
    { FlaatUserInfos(<<"s">>, <<"https://", "i">>, <<"n">>, <<"e">>),
      FlaatUserInfos(<<"S", "t">>, <<"https://", "j", "/">>, <<"m">>, <<"e">>),
      FlaatUserInfos(<<"s">>, <<"https://", "i">>, Missing, <<"e">>),
      NoUserInfos }

\* a table object that takes its name from the subject
UserObject_NameFromSub(sub, name, email, issuer, new_id) ==
    [sub |-> sub, name |-> sub, email |-> email, issuer |-> [str |-> issuer],
     id |-> new_id]

\* User(sub=..., issuer=..., name=..., email=...): a table object is built
\* without validation, its issuer stays the str given and its id is the
\* default uuid4
UserObject(sub, name, email, issuer, new_id) ==
    [sub |-> sub, name |-> name, email |-> email, issuer |-> [str |-> issuer],
     id |-> new_id]

----------------------------------------------------------------------------
(* SQLite: constraint checks of the user table *)

NotNullPrefix == "NOT NULL constraint failed: "
UniquePrefix == "UNIQUE constraint failed: "

\* the database backends settings.DB_URL can name
Dialects == {"sqlite", "postgresql"}

\* error.args[0] of the IntegrityError the backend in use raises. SQLite:
\* "(sqlite3.IntegrityError) <kind>user.c1, user.c2". PostgreSQL names the
\* column or the constraint in its own words:
\* "(psycopg2.errors.NotNullViolation) null value in column "c1" of relation
\* "user" violates not-null constraint" and
\* "(psycopg2.errors.UniqueViolation) duplicate key value violates unique
\* constraint "..."
IntegrityErrorArgs(kind, cols) ==
    IF dialect = "sqlite"
    THEN <<"(sqlite3.IntegrityError) ", kind, TableName, ".", cols[1]>>
         \o (IF Len(cols) > 1 THEN <<", ", TableName, ".", cols[2]>> ELSE <<>>)
    ELSE IF kind = NotNullPrefix
    THEN <<"(psycopg2.errors.NotNullViolation) ", "null value in column \"",
           cols[1], "\" of relation \"", TableName,
           "\" violates not-null constraint">>
    ELSE <<"(psycopg2.errors.UniqueViolation) ",
           "duplicate key value violates unique constraint \"",
           IF Len(cols) > 1 THEN "unique_sub_issuer_couple" ELSE "user_pkey",
           "\"">>

\* NOT NULL on every text column, in column order
NotNullOrder == <<"sub", "name", "email", "issuer">>

NullColumns(vals) == {i \in 1..Len(NotNullOrder) : vals[NotNullOrder[i]] = NoneVal}

\* the table declared without its unique constraint
UniqueSubIssuer_Undeclared(others, vals) == TRUE

\* UniqueConstraint("sub", "issuer", name="unique_sub_issuer_couple")
UniqueSubIssuer(others, vals) ==
    \A r \in others : ~(r.sub = vals.sub /\ r.issuer = vals.issuer)

\* a table whose text columns are nullable
ConstraintFailure_Nullable(others, vals) ==
    IF ~UniqueSubIssuer(others, vals)
    THEN IntegrityErrorArgs(UniquePrefix, <<"sub", "issuer">>)
    ELSE <<>>

\* the IntegrityError SQLite raises for writing vals next to the rows others,
\* or <<>> when the write is accepted
ConstraintFailure(others, vals) ==
    IF NullColumns(vals) # {}
    THEN LET i == CHOOSE j \in NullColumns(vals) : \A k \in NullColumns(vals) : j <= k
         IN  IntegrityErrorArgs(NotNullPrefix, <<NotNullOrder[i]>>)
    ELSE IF ~UniqueSubIssuer(others, vals)
    THEN IntegrityErrorArgs(UniquePrefix, <<"sub", "issuer">>)
    ELSE <<>>

----------------------------------------------------------------------------
(* Constraint-violation translator *)

\* a translator that only knows the NOT NULL pattern
raise_from_integrity_error_NotNullOnly(item, error) ==
    LET element_str == split_camel_case(EntityName)
        m1 == ReSearchAfter(NotNullPrefix, error)
    IN  IF m1 # NoMatch
        THEN [exc |-> "NotNullError",
              message |-> <<"Attribute '">> \o Split(m1, ".")[2] \o <<"' of ">>
                          \o element_str \o <<" ", "can't be NULL">>]
        ELSE [exc |-> "None", message |-> <<>>]

\* a translator that turns an error it does not recognise into a ConflictError
raise_from_integrity_error_ConflictByDefault(item, error) ==
    LET element_str == split_camel_case(EntityName)
        m1 == ReSearchAfter(NotNullPrefix, error)
    IN  IF m1 # NoMatch
        THEN [exc |-> "NotNullError",
              message |-> <<"Attribute '">> \o Split(m1, ".")[2] \o <<"' of ">>
                          \o element_str \o <<" ", "can't be NULL">>]
        ELSE [exc |-> "ConflictError",
              message |-> element_str \o <<" ", "already exists">>]

\* raise_from_integrity_error after its session.rollback(): the domain error
\* raised, exc = "None" when the function returns normally
raise_from_integrity_error(item, error) ==
    LET element_str == split_camel_case(EntityName)
        m1 == ReSearchAfter(NotNullPrefix, error)
        m2 == ReSearchAfter(UniquePrefix, error)
    IN  IF m1 # NoMatch
        THEN LET attr == Split(m1, ".")[2]
             IN  [exc |-> "NotNullError",
                  message |-> <<"Attribute '">> \o attr \o <<"' of ">>
                              \o element_str \o <<" ", "can't be NULL">>]
        ELSE IF m2 # NoMatch
        THEN LET attr == Split(m2, ".")[2]
             IN  [exc |-> "ConflictError",
                  message |-> element_str \o <<" with ">> \o attr \o <<" '">>
                              \o DumpGetStr(item, attr) \o <<"' ", "already exists">>]
        ELSE [exc |-> "None", message |-> <<>>]

----------------------------------------------------------------------------
(* Filter predicate builder *)

ColumnNames == {"sub", "name", "email", "issuer", "id", "created_at"}
IntColumns == {"id", "created_at"}

\* the entity classes get_conditions is used with: the User table, and the
\* table of the unit tests that also has updated_at and a numeric column
User == [name |-> EntityName, columns |-> ColumnNames]
DummyEntity ==
    [name |-> <<"D", "u", "m", "m", "y", "E", "n", "t", "i", "t", "y">>,
     columns |-> {"id", "created_at", "updated_at", "name", "value"}]

\* entity.__table__.c.get(k): the column named k, or "<None>" when the table
\* has no such column
ColumnGet(entity, k) ==
    IF Len(k) = 1 /\ k[1] \in entity.columns THEN k[1] ELSE "<None>"

StrVal(v) == [t |-> "str", v |-> v]
DateTimeVal(v) == [t |-> "datetime", v |-> v]
IntVal(v) == [t |-> "int", v |-> v]
FloatVal(v) == [t |-> "float", v |-> v]
BoolVal(v) == [t |-> "bool", v |-> v]
ListVal(v) == [t |-> "list", v |-> v]

Condition(col, op, val) == [col |-> col, op |-> op, val |-> val]

\* isinstance(v, (int, float)): bool is a subclass of int
IsNumber(v) == v.t \in {"int", "float", "bool"}

\* k[:-4] for a key that ends with a suffix
StripSuffix(k) == SubSeq(k, 1, Len(k) - 1)

\* a filter builder that tests the value's type before the reserved keys
ConditionFor_TypeFirst(entity, k, v) ==
    IF v.t = "str" THEN <<Condition(ColumnGet(entity, k), "icontains", v.v)>>
    ELSE IF IsNumber(v)
    THEN IF k[Len(k)] = "_lte"
         THEN <<Condition(ColumnGet(entity, StripSuffix(k)), "<=", v.v)>>
         ELSE IF k[Len(k)] = "_gte"
         THEN <<Condition(ColumnGet(entity, StripSuffix(k)), ">=", v.v)>>
         ELSE <<Condition(ColumnGet(entity, k), "=", v.v)>>
    ELSE IF k = <<"created_before">>
    THEN <<Condition(ColumnGet(entity, <<"created_at">>), "<=", v.v)>>
    ELSE IF k = <<"updated_before">>
    THEN <<Condition(ColumnGet(entity, <<"updated_at">>), "<=", v.v)>>
    ELSE IF k = <<"created_after">>
    THEN <<Condition(ColumnGet(entity, <<"created_at">>), ">=", v.v)>>
    ELSE IF k = <<"updated_after">>
    THEN <<Condition(ColumnGet(entity, <<"updated_at">>), ">=", v.v)>>
    ELSE <<>>

\* the predicate get_conditions appends for one (k, v) of kwargs, as a
\* sequence of zero or one conditions; a condition on "<None>" stands for the
\* comparison made on a missing column
ConditionFor(entity, k, v) ==
    IF k = <<"created_before">>
    THEN <<Condition(ColumnGet(entity, <<"created_at">>), "<=", v.v)>>
    ELSE IF k = <<"updated_before">>
    THEN <<Condition(ColumnGet(entity, <<"updated_at">>), "<=", v.v)>>
    ELSE IF k = <<"created_after">>
    THEN <<Condition(ColumnGet(entity, <<"created_at">>), ">=", v.v)>>
    ELSE IF k = <<"updated_after">>
    THEN <<Condition(ColumnGet(entity, <<"updated_at">>), ">=", v.v)>>
    ELSE IF v.t = "str" THEN <<Condition(ColumnGet(entity, k), "icontains", v.v)>>
    ELSE IF IsNumber(v)
    THEN IF k[Len(k)] = "_lte"
         THEN <<Condition(ColumnGet(entity, StripSuffix(k)), "<=", v.v)>>
         ELSE IF k[Len(k)] = "_gte"
         THEN <<Condition(ColumnGet(entity, StripSuffix(k)), ">=", v.v)>>
         ELSE <<Condition(ColumnGet(entity, k), "=", v.v)>>
    ELSE <<>>

\* what building that predicate raises: c.get returns None for a missing
\* column, None has no icontains (AttributeError) and no order comparison
\* (TypeError), while None == v is just False
ConditionRaises(entity, k, v) ==
    LET conds == ConditionFor(entity, k, v)
    IN  IF conds = <<>> \/ conds[1].col # "<None>" THEN "None"
        ELSE IF conds[1].op = "icontains" THEN "AttributeError"
        ELSE IF conds[1].op \in {"<=", ">="} THEN "TypeError"
        ELSE "None"

\* a loop that returns from inside its first iteration
get_conditions_FirstOnly(entity, kwargs) ==
    IF kwargs = <<>> THEN <<>>
    ELSE ConditionFor(entity, Head(kwargs).k, Head(kwargs).v)

RECURSIVE get_conditions(_, _)
\* get_conditions(entity, **kwargs), kwargs in iteration order
get_conditions(entity, kwargs) ==
    IF kwargs = <<>> THEN <<>>
    ELSE ConditionFor(entity, Head(kwargs).k, Head(kwargs).v)
         \o get_conditions(entity, Tail(kwargs))

\* the iterations of the loop of get_conditions that ran: all of them, or
\* those up to the first one that raised
Iterations(entity, kwargs) ==
    LET bad == {i \in 1..Len(kwargs) :
                   ConditionRaises(entity, kwargs[i].k, kwargs[i].v) # "None"}
    IN  IF bad = {} THEN Len(kwargs)
        ELSE CHOOSE i \in bad : \A j \in bad : i <= j

----------------------------------------------------------------------------
(* SQLite: queries on the user table *)

\* one WHERE predicate on one row
Holds(c, r) ==
    CASE c.op = "icontains" -> Contains(LowerStr(r[c.col]), LowerStr(c.val))
      [] c.op = "<=" -> r[c.col] <= c.val
      [] c.op = ">=" -> r[c.col] >= c.val
      [] c.op = "=" -> r[c.col] = c.val

\* sqlalchemy.and_(*conditions)
Where(conds, r) == \A i \in 1..Len(conds) : Holds(conds[i], r)

\* a sorts strictly before b in ORDER BY col
Before(col, a, b) ==
    IF col \in IntColumns THEN a[col] < b[col] ELSE StrLess(a[col], b[col])

\* every order in which the engine may return the rows: sorted by the key,
\* rows with equal keys in any order
Orderings(rows, order) ==
    LET n == Cardinality(rows)
    IN  { f \in [1..n -> rows] :
            /\ \A i, j \in 1..n : i # j => f[i] # f[j]
            /\ \A i, j \in 1..n : i < j =>
                   IF order.desc THEN ~Before(order.col, f[i], f[j])
                   ELSE ~Before(order.col, f[j], f[i]) }

\* OFFSET off LIMIT lim on a result
Slice(seq, off, lim) ==
    LET hi == IF off + lim < Len(seq) THEN off + lim ELSE Len(seq)
    IN  IF off >= Len(seq) THEN <<>> ELSE SubSeq(seq, off + 1, hi)

\* session.exec(select ...).all(): the possible results
ExecSelect(tbl, stmt) ==
    { Slice(f, stmt.offset, stmt.limit) :
        f \in Orderings({r \in tbl : Where(stmt.where, r)}, stmt.order_by) }

\* session.exec(select(func.count(id)) ...).first(); a statement whose limit
\* is -1 has no LIMIT/OFFSET clause
ExecCount(tbl, stmt) ==
    LET n == Cardinality({r \in tbl : Where(stmt.where, r)})
    IN  IF stmt.limit = -1 THEN n
        ELSE Len(Slice([i \in 1..n |-> i], stmt.offset, stmt.limit))

----------------------------------------------------------------------------
(* Generic repository: each function returns what the call did *)

Result(tbl, calls, exc, message, ret) ==
    [table |-> tbl, calls |-> calls, exc |-> exc, message |-> message, ret |-> ret]

\* a table whose id column is not a key
PrimaryKey_Undeclared(tbl, new_id) == TRUE

\* ItemID.id: Field(primary_key=True); no stored row has the id
PrimaryKey(tbl, new_id) == \A r \in tbl : r.id # new_id

\* add_item(entity=User, session, item, created_by=None); new_id is the
\* value uuid4 gave ItemID.id and now the value of func.now(); an insert that
\* breaks both the (sub, issuer) constraint and the key is reported as the
\* former
add_item(tbl, item, new_id, now) ==
    LET vals == BoundValues(item)
        db_item == [id |-> new_id, sub |-> vals.sub, name |-> vals.name,
                    email |-> vals.email, issuer |-> vals.issuer,
                    created_at |-> now]
        failure == ConstraintFailure(tbl, vals)
        error == IF failure # <<>> THEN failure
                 ELSE IF ~PrimaryKey(tbl, new_id)
                 THEN IntegrityErrorArgs(UniquePrefix, <<"id">>)
                 ELSE <<>>
    IN  IF error = <<>>
        THEN Result(tbl \cup {db_item}, <<"add", "commit">>, "None", <<>>, new_id)
        ELSE LET e == raise_from_integrity_error(item, error)
             IN  Result(tbl, <<"add", "commit:IntegrityError", "rollback">>,
                        e.exc, e.message, 0)

\* update_item whose statement leaves name out of its values
update_item_KeepsName(tbl, item_id, new_data) ==
    LET vals == BoundValues(new_data)
        rows == {r \in tbl : r.id = item_id}
        others == tbl \ rows
        error == ConstraintFailure(others, vals)
    IN  IF rows = {}
        THEN Result(tbl, <<"exec">>, "NoItemToUpdateError",
                    split_camel_case(EntityName) \o <<" with ID ", ToString(item_id),
                                                      " does not exist">>, 0)
        ELSE IF error = <<>>
        THEN Result(others \cup
                      { [r EXCEPT !.sub = vals.sub, !.email = vals.email,
                                  !.issuer = vals.issuer] :
                        r \in rows },
                    <<"exec", "commit">>, "None", <<>>, 0)
        ELSE LET e == raise_from_integrity_error(new_data, error)
             IN  Result(tbl, <<"exec:IntegrityError", "rollback">>,
                        e.exc, e.message, 0)

\* update_item without the rowcount test: a statement that matched no row is
\* committed like any other
update_item_NoRowcountTest(tbl, item_id, new_data) ==
    LET vals == BoundValues(new_data)
        rows == {r \in tbl : r.id = item_id}
        others == tbl \ rows
        error == ConstraintFailure(others, vals)
    IN  IF rows = {} \/ error = <<>>
        THEN Result(others \cup
                      { [r EXCEPT !.sub = vals.sub, !.name = vals.name,
                                  !.email = vals.email, !.issuer = vals.issuer] :
                        r \in rows },
                    <<"exec", "commit">>, "None", <<>>, 0)
        ELSE LET e == raise_from_integrity_error(new_data, error)
             IN  Result(tbl, <<"exec:IntegrityError", "rollback">>,
                        e.exc, e.message, 0)

\* update_item(entity=User, session, item_id, new_data, updated_by=None)
update_item(tbl, item_id, new_data) ==
    LET vals == BoundValues(new_data)
        rows == {r \in tbl : r.id = item_id}
        others == tbl \ rows
        error == ConstraintFailure(others, vals)
    IN  IF rows = {}
        THEN Result(tbl, <<"exec">>, "NoItemToUpdateError",
                    split_camel_case(EntityName) \o <<" with ID ", ToString(item_id),
                                                      " does not exist">>, 0)
        ELSE IF error = <<>>
        THEN Result(others \cup
                      { [r EXCEPT !.sub = vals.sub, !.name = vals.name,
                                  !.email = vals.email, !.issuer = vals.issuer] :
                        r \in rows },
                    <<"exec", "commit">>, "None", <<>>, 0)
        ELSE LET e == raise_from_integrity_error(new_data, error)
             IN  Result(tbl, <<"exec:IntegrityError", "rollback">>,
                        e.exc, e.message, 0)

\* delete_item whose statement lost its where clause
delete_item_NoWhere(tbl, item_id) ==
    Result({}, <<"exec", "commit">>, "None", <<>>, 0)

\* delete_item(entity=User, session, item_id)
delete_item(tbl, item_id) ==
    Result({r \in tbl : r.id # item_id}, <<"exec", "commit">>, "None", <<>>, 0)

\* get_item(entity=User, session, item_id): session.exec(select(User)
\* .where(User.id == item_id)).first(), the possible results; ret is the id of
\* the row found, 0 for None
get_item(tbl, item_id) ==
    IF \E r \in tbl : r.id = item_id
    THEN { Result(tbl, <<"exec">>, "None", <<>>, r.id) : r \in {x \in tbl : x.id = item_id} }
    ELSE { Result(tbl, <<"exec">>, "None", <<>>, 0) }

\* an ORDER BY key that ignores the leading "-"
SortKey_Ascending(sort) ==
    IF Head(sort) = "-" THEN [col |-> ColumnGet(User, Tail(sort)), desc |-> FALSE]
    ELSE [col |-> ColumnGet(User, sort), desc |-> FALSE]

\* the ORDER BY key of get_items: desc(column) when sort starts with "-"
SortKey(sort) ==
    IF Head(sort) = "-" THEN [col |-> ColumnGet(User, Tail(sort)), desc |-> TRUE]
    ELSE [col |-> ColumnGet(User, sort), desc |-> FALSE]

\* a page statement that forgets the offset
page_statement_NoOffset(conditions, skip, limit, key) ==
    [where |-> conditions, offset |-> 0, limit |-> limit, order_by |-> key]

\* select(entity).offset(skip).limit(limit).order_by(key).filter(and_(*conditions))
page_statement(conditions, skip, limit, key) ==
    [where |-> conditions, offset |-> skip, limit |-> limit, order_by |-> key]

\* a count statement built without the filter
count_statement_Unfiltered(conditions, skip, limit, key) ==
    [where |-> <<>>, offset |-> 0, limit |-> -1, order_by |-> key]

\* select(func.count(entity.id)).filter(and_(*conditions))
count_statement(conditions, skip, limit, key) ==
    [where |-> conditions, offset |-> 0, limit |-> -1, order_by |-> key]

\* get_items(entity=User, session, skip, limit, sort, **kwargs): the possible
\* (items, tot_items) together with the two statements executed
get_items(tbl, skip, limit, sort, kwargs) ==
    LET key == SortKey(sort)
        conditions == get_conditions(User, kwargs)
        st1 == page_statement(conditions, skip, limit, key)
        st2 == count_statement(conditions, skip, limit, key)
    IN  { [items |-> items, tot_items |-> ExecCount(tbl, st2),
           page_stmt |-> st1, count_stmt |-> st2] :
          items \in ExecSelect(tbl, st1) }

----------------------------------------------------------------------------
(* Pagination / navigation assembler *)

\* math.ceil(a / b) for b >= 1
Ceil(a, b) == -((-a) \div b)

\* total_pages without the floor of one page
total_pages_NoFloor(total_elements, size) == Ceil(total_elements, size)

\* Pagination.total_pages
total_pages(total_elements, size) ==
    LET val == Ceil(total_elements, size)
    IN  IF val = 0 THEN 1 ELSE val

\* Pagination(number, size, total_elements): Field(ge=1) on size and number
PaginationValid(number, size) == size >= 1 /\ number >= 1

\* a URL: the part before "?" and the query as (key, value) pairs in order
Url(base, query) == [base |-> base, query |-> query]
NoUrl == Url("None", <<>>)
Param(k, v) == [k |-> k, v |-> v]

\* urllib.parse.unquote_plus on the texts that occur as keys and values:
\* "+" and "%20" both decode to a space
unquote_plus(s) ==
    CASE s = "a%20b" -> "a b"
      [] s = "a+b" -> "a b"
      [] OTHER -> s

\* urllib.parse.quote_plus: a space is written "+"; letters, digits, "-" and
\* "_" are written as they are
quote_plus(s) ==
    CASE s = "a b" -> "a+b"
      [] OTHER -> s

\* parse_qsl(url.query, keep_blank_values=True): the decoded pairs in order
parse_qsl(query) ==
    [i \in 1..Len(query) |-> Param(unquote_plus(query[i].k), unquote_plus(query[i].v))]

\* urlencode(params.multi_items())
urlencode(params) ==
    [i \in 1..Len(params) |-> Param(quote_plus(params[i].k), quote_plus(params[i].v))]

\* URL.remove_query_params(key): the query is parsed, every pair with that
\* key is dropped and the rest is encoded again
remove_query_params(url, key) ==
    Url(url.base, urlencode(SelectSeq(parse_qsl(url.query), LAMBDA p : p.k # key)))

\* include_query_params that builds the query from the new pair alone
include_query_params_Fresh(url, key, value) ==
    Url(url.base, urlencode(<<Param(key, ToString(value))>>))

\* URL.include_query_params(key=value): the query is parsed, pairs with that
\* key are replaced by one pair at the end with the value converted by str(),
\* and the result is encoded again
include_query_params(url, key, value) ==
    Url(url.base,
        urlencode(Append(SelectSeq(parse_qsl(url.query), LAMBDA p : p.k # key),
                         Param(key, ToString(value)))))

\* links whose tests are off by one: prev from page 1 on, next up to the
\* last page
links_OffByOne(page_number, page_size, tot_items, resource_url) ==
    LET url == remove_query_params(resource_url, "page")
        tp == total_pages(tot_items, page_size)
    IN  [first |-> include_query_params(url, "page", 1),
         prev |-> IF page_number >= 1
                  THEN include_query_params(url, "page", page_number - 1)
                  ELSE NoUrl,
         next |-> IF page_number <= tp
                  THEN include_query_params(url, "page", page_number + 1)
                  ELSE NoUrl,
         last |-> include_query_params(url, "page", tp)]

\* links that offer a next page on every page
links_NextAlways(page_number, page_size, tot_items, resource_url) ==
    LET url == remove_query_params(resource_url, "page")
        tp == total_pages(tot_items, page_size)
    IN  [first |-> include_query_params(url, "page", 1),
         prev |-> IF page_number > 1
                  THEN include_query_params(url, "page", page_number - 1)
                  ELSE NoUrl,
         next |-> include_query_params(url, "page", page_number + 1),
         last |-> include_query_params(url, "page", tp)]

\* PaginatedList.links
links(page_number, page_size, tot_items, resource_url) ==
    LET url == remove_query_params(resource_url, "page")
        tp == total_pages(tot_items, page_size)
        first_page == include_query_params(url, "page", 1)
        prev_page == IF page_number > 1
                     THEN include_query_params(url, "page", page_number - 1)
                     ELSE NoUrl
        next_page == IF page_number < tp
                     THEN include_query_params(url, "page", page_number + 1)
                     ELSE NoUrl
        last_page == include_query_params(url, "page", tp)
    IN  [first |-> first_page, prev |-> prev_page, next |-> next_page,
         last |-> last_page]

NoLinks == [first |-> NoUrl, prev |-> NoUrl, next |-> NoUrl, last |-> NoUrl]

\* resource URLs of list requests
ResourceUrls ==
    { Url("http://test/resource", <<>>),
      Url("http://test/resource", <<Param("size", "2"), Param("page", "2")>>),
      Url("http://test/resource",
          <<Param("page", "1"), Param("sort", "-created_at"), Param("page", "3")>>),
      Url("http://test/resource", <<Param("name", "a%20b"), Param("size", "2")>>) }

----------------------------------------------------------------------------
(* State *)

NoItem == [sub |-> <<>>, name |-> <<>>, email |-> <<>>,
           issuer |-> [scheme |-> "", host |-> <<>>, path |-> <<>>]]

NoStmt == [where |-> <<>>, offset |-> 0, limit |-> 0,
           order_by |-> [col |-> "", desc |-> FALSE]]

\* the record of the last call: what was asked, the session calls it made in
\* order, what it raised or returned, and the table before it
Call(op, item, id, res, before) ==
    [op |-> op, item |-> item, id |-> id, calls |-> res.calls, exc |-> res.exc,
     message |-> res.message, ret |-> res.ret, before |-> before,
     page |-> 0, size |-> 0, sort |-> <<>>, kwargs |-> <<>>,
     page_stmt |-> NoStmt, count_stmt |-> NoStmt, items |-> <<>>, tot_items |-> 0,
     user_infos |-> NoUserInfos]

Query(op, page, size, sort, kwargs, res, before) ==
    [op |-> op, item |-> NoItem, id |-> 0, calls |-> <<"exec", "exec">>,
     exc |-> "None", message |-> <<>>, ret |-> 0, before |-> before,
     page |-> page, size |-> size, sort |-> sort, kwargs |-> kwargs,
     page_stmt |-> res.page_stmt, count_stmt |-> res.count_stmt,
     items |-> res.items, tot_items |-> res.tot_items,
     user_infos |-> NoUserInfos]

\* a PaginatedList: its fields, which computed property was evaluated last,
\* and what the evaluation raised or returned
PaginatedList(page_number, page_size, tot_items, resource_url) ==
    [page_number |-> page_number, page_size |-> page_size, tot_items |-> tot_items,
     resource_url |-> resource_url, done |-> "none", exc |-> "None",
     total_pages |-> 0, links |-> NoLinks]

NoPage == PaginatedList(1, 1, 0, NoUrl)

\* a call of get_conditions: its arguments, whether it has run, what it
\* raised, what each iteration of its loop appended and what it returned
FilterCall(entity, kwargs) ==
    [entity |-> entity, kwargs |-> kwargs, done |-> FALSE, exc |-> "None",
     emitted |-> <<>>, conditions |-> <<>>]

NoFilter == FilterCall(User, <<>>)

\* a session of a request running add_item: where it stands (pc), the item,
\* the row it wants to store, the IntegrityError its INSERT got, the session
\* calls it made and what add_item raised
SessionState(pc, item, row, error, calls, exc, message) ==
    [pc |-> pc, item |-> item, row |-> row, error |-> error, calls |-> calls,
     exc |-> exc, message |-> message]

NoRow == [id |-> 0, sub |-> <<>>, name |-> <<>>, email |-> <<>>, issuer |-> <<>>,
          created_at |-> 0]

IdleSession == SessionState("idle", NoItem, NoRow, <<>>, <<>>, "None", <<>>)

\* no request is running; lock is the session that holds the database's
\* write lock, 0 when it is free
NoSessions == [lock |-> 0, s |-> <<>>]

\* the answer of an endpoint: the status code, the detail of an
\* HTTPException and the id carried by the body of a success
Response(endpoint, status, detail, body) ==
    [endpoint |-> endpoint, status |-> status, detail |-> detail, body |-> body]

NoResponse == Response("none", 0, <<>>, 0)

\* a call of check_authorization: the setting AUTHZ_MODE, the request, what
\* requests.post did, whether OPA was contacted and how the call ended
Authorization(mode, request, answer, contacted, outcome) ==
    [mode |-> mode, request |-> request, answer |-> answer,
     contacted |-> contacted, outcome |-> outcome]

NoRequest == [method |-> "none", path |-> "none", has_body |-> FALSE]
NoAnswer == [raises |-> "None", status_code |-> 0,
             json |-> [result |-> "absent", allow |-> "absent"]]
Outcome(kind, status_code, detail) ==
    [kind |-> kind, status_code |-> status_code, detail |-> detail]
NoOutcome == Outcome("none", 0, <<>>)

NoAuthorization == Authorization("None", NoRequest, NoAnswer, FALSE, NoOutcome)

\* the lifespan of the application: the statement it stands at, its phase
\* and, in order, the calls it made and the requests the application served
Lifespan(pc, phase, calls) == [pc |-> pc, phase |-> phase, calls |-> calls]

NoLifespan == Lifespan(0, "none", <<>>)

\* a request running get_current_user: where it stands, the token, the page
\* the first query returned, the count the second returned, and the result
Reader(pc, user_info, users, count, exc, ret) ==
    [pc |-> pc, user_info |-> user_info, users |-> users, count |-> count,
     exc |-> exc, ret |-> ret]

NoReader == Reader("idle", [sub |-> <<>>, iss |-> <<>>], <<>>, 0, "None", 0)

Init ==
    /\ table = {}
    /\ clock = 0
    /\ nextId = 1
    /\ last = Call("none", NoItem, 0, Result({}, <<>>, "None", <<>>, 0), {})
    /\ pg = NoPage
    /\ flt = NoFilter
    /\ sess = NoSessions
    /\ resp = NoResponse
    /\ dialect = "sqlite"
    /\ authz = NoAuthorization
    /\ life = NoLifespan
    /\ rd = NoReader

----------------------------------------------------------------------------
(* Requests *)

\* the database clock moves between requests (CURRENT_TIMESTAMP)
Tick ==
    /\ clock < MaxClock
    /\ clock' = clock + 1
    /\ UNCHANGED <<table, nextId, last, pg, flt, sess, resp, dialect, authz, life, rd>>

\* add_user(session, user)
AddItem(item) ==
    /\ nextId <= MaxIds
    /\ LET res == add_item(table, item, nextId, clock)
       IN  /\ table' = res.table
           /\ nextId' = IF res.exc = "None" THEN nextId + 1 ELSE nextId
           /\ last' = Call("add_item", item, nextId, res, table)
    /\ UNCHANGED <<clock, pg, flt, sess, resp, dialect, authz, life, rd>>

\* update_user(session, user_id, new_user)
UpdateItem(item_id, new_data) ==
    /\ LET res == update_item(table, item_id, new_data)
       IN  /\ table' = res.table
           /\ last' = Call("update_item", new_data, item_id, res, table)
    /\ UNCHANGED <<clock, nextId, pg, flt, sess, resp, dialect, authz, life, rd>>

\* delete_user(session, user_id)
DeleteItem(item_id) ==
    /\ LET res == delete_item(table, item_id)
       IN  /\ table' = res.table
           /\ last' = Call("delete_item", NoItem, item_id, res, table)
    /\ UNCHANGED <<clock, nextId, pg, flt, sess, resp, dialect, authz, life, rd>>

\* the ids a request may name: those the repository can hand out, and one
\* that never belonged to a record
ItemIds == 1..(MaxIds + 1)

\* the (sort, filters) of the list requests
Queries ==
    { [sort |-> <<"-", "created_at">>, kwargs |-> <<>>],
      [sort |-> <<"sub">>,
       kwargs |-> <<[k |-> <<"issuer">>, v |-> StrVal(<<"I">>)]>>],
      [sort |-> <<"created_at">>,
       kwargs |-> <<[k |-> <<"created_after">>, v |-> DateTimeVal(1)],
                    [k |-> <<"sub">>, v |-> StrVal(<<"S">>)]>>] }

\* retrieve_users: get_users(skip=(page-1)*size, limit=size, sort, **filters)
RetrieveUsers(page, size, sort, kwargs) ==
    /\ \E res \in get_items(table, (page - 1) * size, size, sort, kwargs) :
           last' = Query("get_items", page, size, sort, kwargs, res, table)
    /\ UNCHANGED <<table, clock, nextId, pg, flt, sess, resp, dialect, authz, life, rd>>

\* the claims of the access tokens: sub and iss as the identity provider
\* writes them
UserInfos ==
    { [sub |-> <<"s">>, iss |-> <<"https://", "i">>],
      [sub |-> <<"S", "t">>, iss |-> <<"https://", "j", "/">>] }

\* the keyword arguments get_current_user passes on, both of type str
IdentityFilter(user_info) ==
    <<[k |-> <<"sub">>, v |-> StrVal(user_info.sub)],
      [k |-> <<"issuer">>, v |-> StrVal(user_info.iss)]>>

\* get_current_user(user_infos, session): get_users(skip=0, limit=1,
\* sort="-created_at", sub=..., issuer=...), then None (ret = 0) when the
\* count is 0 and users[0] (ret = its id) otherwise
GetCurrentUser(user_info) ==
    /\ \E res \in get_items(table, 0, 1, <<"-", "created_at">>,
                             IdentityFilter(user_info)) :
           last' = [Query("get_current_user", 1, 1, <<"-", "created_at">>,
                          IdentityFilter(user_info), res, table)
                      EXCEPT !.ret = IF res.tot_items = 0 THEN 0
                                     ELSE res.items[1].id]
    /\ UNCHANGED <<table, clock, nextId, pg, flt, sess, resp, dialect, authz, life, rd>>

Next ==
    \/ Tick
    \/ \E item \in Items : AddItem(item)
    \/ \E item_id \in ItemIds, new_data \in Items : UpdateItem(item_id, new_data)
    \/ \E item_id \in ItemIds : DeleteItem(item_id)
    \/ \E page \in 1..MaxPage, size \in 1..MaxSize, q \in Queries :
           RetrieveUsers(page, size, q.sort, q.kwargs)
    \/ \E user_info \in UserInfos : GetCurrentUser(user_info)

Spec == Init /\ [][Next]_vars

----------------------------------------------------------------------------
(* The user endpoints: each calls its repository function and turns the   *)
(* domain error raised into an HTTPException                              *)

HTTP_200_OK == 200
HTTP_201_CREATED == 201
HTTP_204_NO_CONTENT == 204
HTTP_404_NOT_FOUND == 404
HTTP_409_CONFLICT == 409
HTTP_422_UNPROCESSABLE_ENTITY == 422

\* an exception no handler of the endpoint catches reaches the server's
\* error middleware, which answers 500
Unhandled(endpoint) == Response(endpoint, 500, <<"Internal Server Error">>, 0)

\* create_user(request, current_user_infos, session, user); user is NoItem
\* when the request has no body. res.calls is empty when add_user was not
\* reached; db_user.id of the None that add_item returned after a swallowed
\* IntegrityError raises AttributeError
create_user(tbl, current_user_infos, user, new_id, now) ==
    IF user = NoItem /\ (current_user_infos.none
                          \/ current_user_infos.name = Missing
                          \/ current_user_infos.email = Missing)
    THEN [item |-> NoItem,
          res |-> Result(tbl, <<>>, IF current_user_infos.none
                                    THEN "AttributeError" ELSE "KeyError", <<>>, 0),
          resp |-> Unhandled("create_user")]
    ELSE
    LET item == IF user = NoItem
                THEN UserObject(current_user_infos.sub, current_user_infos.name,
                                current_user_infos.email, current_user_infos.iss,
                                new_id)
                ELSE user
        res == add_item(tbl, item, new_id, now)
    IN  [item |-> item,
         res |-> res,
         resp |-> IF res.exc = "ConflictError"
                  THEN Response("create_user", HTTP_409_CONFLICT, res.message, 0)
                  ELSE IF res.exc = "NotNullError"
                  THEN Response("create_user", HTTP_422_UNPROCESSABLE_ENTITY,
                                res.message, 0)
                  ELSE IF res.exc = "None" /\ res.ret # 0
                  THEN Response("create_user", HTTP_201_CREATED, <<>>, res.ret)
                  ELSE Unhandled("create_user")]

\* edit_user that lost its handler of NoItemToUpdateError
edit_user_NoNotFoundHandler(tbl, user_id, new_user) ==
    LET res == update_item(tbl, user_id, new_user)
    IN  [res |-> res,
         resp |-> IF res.exc = "ConflictError"
                  THEN Response("edit_user", HTTP_409_CONFLICT, res.message, 0)
                  ELSE IF res.exc = "NotNullError"
                  THEN Response("edit_user", HTTP_422_UNPROCESSABLE_ENTITY,
                                res.message, 0)
                  ELSE IF res.exc = "None"
                  THEN Response("edit_user", HTTP_204_NO_CONTENT, <<>>, 0)
                  ELSE Unhandled("edit_user")]

\* edit_user(request, user_id, new_user, session)
edit_user(tbl, user_id, new_user) ==
    LET res == update_item(tbl, user_id, new_user)
    IN  [res |-> res,
         resp |-> IF res.exc = "NoItemToUpdateError"
                  THEN Response("edit_user", HTTP_404_NOT_FOUND, res.message, 0)
                  ELSE IF res.exc = "ConflictError"
                  THEN Response("edit_user", HTTP_409_CONFLICT, res.message, 0)
                  ELSE IF res.exc = "NotNullError"
                  THEN Response("edit_user", HTTP_422_UNPROCESSABLE_ENTITY,
                                res.message, 0)
                  ELSE IF res.exc = "None"
                  THEN Response("edit_user", HTTP_204_NO_CONTENT, <<>>, 0)
                  ELSE Unhandled("edit_user")]

\* retrieve_user(request, user_id, user), user = Depends(get_user): the
\* possible answers
retrieve_user(tbl, user_id) ==
    { [res |-> res,
       resp |-> IF res.ret = 0
                THEN Response("retrieve_user", HTTP_404_NOT_FOUND,
                              <<"User with ID '", ToString(user_id),
                                "' does not exist">>, 0)
                ELSE Response("retrieve_user", HTTP_200_OK, <<>>, res.ret)] :
      res \in get_item(tbl, user_id) }

\* remove_user(request, user_id, session)
remove_user(tbl, user_id) ==
    LET res == delete_item(tbl, user_id)
    IN  [res |-> res, resp |-> Response("remove_user", HTTP_204_NO_CONTENT, <<>>, 0)]

\* POST /users/; new_id is what uuid4 returns, which may be any id, also one
\* that is stored
CreateUser(user, new_id) ==
    /\ LET r == create_user(table, NoUserInfos, user, new_id, clock)
       IN  /\ table' = r.res.table
           /\ last' = Call("add_item", user, new_id, r.res, table)
           /\ resp' = r.resp
    /\ UNCHANGED <<clock, nextId, pg, flt, sess, dialect, authz, life, rd>>

\* POST /users/ without a body, by a request whose token gave
\* current_user_infos
CreateUserNoBody(current_user_infos, new_id) ==
    /\ LET r == create_user(table, current_user_infos, NoItem, new_id, clock)
       IN  /\ table' = r.res.table
           /\ last' = [Call(IF r.res.calls = <<>> THEN "create_user" ELSE "add_item",
                            r.item, new_id, r.res, table)
                         EXCEPT !.user_infos = current_user_infos]
           /\ resp' = r.resp
    /\ UNCHANGED <<clock, nextId, pg, flt, sess, dialect, authz, life, rd>>

\* PUT /users/{user_id}
EditUser(user_id, new_user) ==
    /\ LET r == edit_user(table, user_id, new_user)
       IN  /\ table' = r.res.table
           /\ last' = Call("update_item", new_user, user_id, r.res, table)
           /\ resp' = r.resp
    /\ UNCHANGED <<clock, nextId, pg, flt, sess, dialect, authz, life, rd>>

\* GET /users/{user_id}
RetrieveUser(user_id) ==
    /\ \E r \in retrieve_user(table, user_id) :
           /\ last' = Call("get_item", NoItem, user_id, r.res, table)
           /\ resp' = r.resp
    /\ UNCHANGED <<table, clock, nextId, pg, flt, sess, dialect, authz, life, rd>>

\* DELETE /users/{user_id}
RemoveUser(user_id) ==
    /\ LET r == remove_user(table, user_id)
       IN  /\ table' = r.res.table
           /\ last' = Call("delete_item", NoItem, user_id, r.res, table)
           /\ resp' = r.resp
    /\ UNCHANGED <<clock, nextId, pg, flt, sess, dialect, authz, life, rd>>

NextApi ==
    \/ Tick
    \/ \E user \in Items, new_id \in 1..MaxIds : CreateUser(user, new_id)
    \/ \E user_id \in ItemIds, new_user \in Items : EditUser(user_id, new_user)
    \/ \E user_id \in ItemIds : RetrieveUser(user_id)
    \/ \E user_id \in ItemIds : RemoveUser(user_id)

SpecApi == Init /\ [][NextApi]_vars

\* the endpoints that write, on either backend: settings.DB_URL is fixed
\* when the engine is created
InitEngine ==
    /\ table = {}
    /\ clock = 0
    /\ nextId = 1
    /\ last = Call("none", NoItem, 0, Result({}, <<>>, "None", <<>>, 0), {})
    /\ pg = NoPage
    /\ flt = NoFilter
    /\ sess = NoSessions
    /\ resp = NoResponse
    /\ dialect \in Dialects
    /\ authz = NoAuthorization
    /\ life = NoLifespan
    /\ rd = NoReader

NextEngine ==
    \/ \E user \in Items, new_id \in 1..MaxIds : CreateUser(user, new_id)
    \/ \E user_id \in ItemIds, new_user \in Items : EditUser(user_id, new_user)
    \/ \E user_id \in ItemIds : RemoveUser(user_id)

SpecEngine == InitEngine /\ [][NextEngine]_vars

\* self-registration next to explicit creation and removal
NextRegister ==
    \/ \E user \in Items, new_id \in 1..MaxIds : CreateUser(user, new_id)
    \/ \E current_user_infos \in CurrentUserInfos, new_id \in 1..MaxIds :
           CreateUserNoBody(current_user_infos, new_id)
    \/ \E user_id \in ItemIds : RemoveUser(user_id)

SpecRegister == Init /\ [][NextRegister]_vars

----------------------------------------------------------------------------
(* Authorization: check_authorization asks the OPA server when AUTHZ_MODE  *)
(* is opa                                                                  *)

HTTP_400_BAD_REQUEST == 400
HTTP_401_UNAUTHORIZED == 401
HTTP_500_INTERNAL_SERVER_ERROR == 500

AuthorizationMethods == {"opa", "None"}

\* the direct base classes of the exceptions requests.post raises and of the
\* classes the except clause names; ConnectionError is Python's builtin, and
\* requests.ConnectionError is another class, derived from
\* requests.RequestException
Bases(c) ==
    CASE c = "requests.ConnectTimeout" -> {"requests.ConnectionError", "requests.Timeout"}
      [] c = "requests.ReadTimeout" -> {"requests.Timeout"}
      [] c = "requests.Timeout" -> {"requests.RequestException"}
      [] c = "requests.ConnectionError" -> {"requests.RequestException"}
      [] c = "requests.RequestException" -> {"OSError"}
      [] c = "ConnectionRefusedError" -> {"ConnectionError"}
      [] c = "ConnectionError" -> {"OSError"}
      [] OTHER -> {}

RECURSIVE IsSubclass(_, _)
\* issubclass(c, d)
IsSubclass(c, d) == c = d \/ \E b \in Bases(c) : IsSubclass(b, d)

\* what requests.post(settings.OPA_AUTHZ_URL, json=data, timeout=OPA_TIMEOUT)
\* does: it raises, or returns a response with a status code and a JSON body
\* that has a result or not, whose result has the key allow or not
Answer(raises, status_code, result, allow) ==
    [raises |-> raises, status_code |-> status_code,
     json |-> [result |-> result, allow |-> allow]]

OpaAnswers ==
    { Answer("None", HTTP_200_OK, "present", allow) : allow \in {"true", "false", "absent"} }
    \cup { Answer("None", code, "absent", "absent") :
             code \in {HTTP_200_OK, HTTP_400_BAD_REQUEST,
                       HTTP_500_INTERNAL_SERVER_ERROR, 404, 204} }
    \cup { Answer(e, 0, "absent", "absent") :
             e \in {"requests.ReadTimeout", "requests.ConnectTimeout",
                    "requests.ConnectionError"} }

\* the requests that reach the dependency
Requests ==
    [method : {"GET", "POST", "PUT", "DELETE"}, path : {"/api/v1/users/", "/api/v1/users/1"},
     has_body : BOOLEAN]

HTTPException(status_code, detail) == Outcome("HTTPException", status_code, detail)

\* an exception nothing catches: the server answers 500
Propagates(exc) == Outcome(exc, 500, <<"Internal Server Error">>)

Return == Outcome("return", 0, <<>>)

\* an authorization check that reads a missing result as permission
check_opa_authorization_AllowByDefault(user_infos, answer) ==
    IF user_infos.none
    THEN [contacted |-> FALSE, outcome |-> Propagates("AttributeError")]
    ELSE [contacted |-> TRUE,
          outcome |-> IF answer.raises # "None" THEN Propagates(answer.raises)
                      ELSE IF answer.status_code = HTTP_200_OK
                              /\ answer.json.allow # "false"
                      THEN Return
                      ELSE HTTPException(HTTP_401_UNAUTHORIZED,
                                         <<"Unauthorized to perform this operation">>)]

\* check_opa_authorization(request, user_infos, settings, logger): whether
\* requests.post was called, and how the function ended
check_opa_authorization(user_infos, answer) ==
    IF user_infos.none
    THEN [contacted |-> FALSE, outcome |-> Propagates("AttributeError")]
    ELSE [contacted |-> TRUE,
          outcome |->
            IF answer.raises # "None"
            THEN IF IsSubclass(answer.raises, "requests.Timeout")
                    \/ IsSubclass(answer.raises, "ConnectionError")
                 THEN HTTPException(HTTP_500_INTERNAL_SERVER_ERROR,
                        <<"Authentication failed: OPA server is not reachable">>)
                 ELSE Propagates(answer.raises)
            ELSE IF answer.status_code = HTTP_200_OK
            THEN LET allow == IF answer.json.result = "absent" THEN "false"
                              ELSE answer.json.allow
                 IN  IF allow = "absent" THEN Propagates("KeyError")
                     ELSE IF allow = "true" THEN Return
                     ELSE HTTPException(HTTP_401_UNAUTHORIZED,
                            <<"Unauthorized to perform this operation">>)
            ELSE IF answer.status_code = HTTP_400_BAD_REQUEST
            THEN HTTPException(HTTP_500_INTERNAL_SERVER_ERROR,
                   <<"Authentication failed: Bad request sent to OPA server">>)
            ELSE IF answer.status_code = HTTP_500_INTERNAL_SERVER_ERROR
            THEN HTTPException(HTTP_500_INTERNAL_SERVER_ERROR,
                   <<"Authentication failed: OPA server internal error">>)
            ELSE HTTPException(HTTP_500_INTERNAL_SERVER_ERROR,
                   <<"Authentication failed: OPA unexpected response code ", "'",
                     ToString(answer.status_code), "'">>)]

\* check_authorization(request, user_infos, settings)
check_authorization(mode, user_infos, answer) ==
    IF mode = "opa" THEN check_opa_authorization(user_infos, answer)
    ELSE [contacted |-> FALSE, outcome |-> Return]

\* settings.AUTHZ_MODE is read once, when the application starts
InitAuth ==
    /\ table = {}
    /\ clock = 0
    /\ nextId = 1
    /\ last = Call("none", NoItem, 0, Result({}, <<>>, "None", <<>>, 0), {})
    /\ pg = NoPage
    /\ flt = NoFilter
    /\ sess = NoSessions
    /\ resp = NoResponse
    /\ dialect = "sqlite"
    /\ \E mode \in AuthorizationMethods :
           authz = [NoAuthorization EXCEPT !.mode = mode]
    /\ life = NoLifespan
    /\ rd = NoReader

\* a request reaches the AuthorizationDep dependency; answer is what
\* requests.post does if it is called
CheckAuthorization(request, user_infos, answer) ==
    /\ LET r == check_authorization(authz.mode, user_infos, answer)
       IN  authz' = Authorization(authz.mode, request,
                                  IF r.contacted THEN answer ELSE NoAnswer,
                                  r.contacted, r.outcome)
    /\ UNCHANGED <<table, clock, nextId, last, pg, flt, sess, resp, dialect, life, rd>>

NextAuth ==
    \E request \in Requests, user_infos \in CurrentUserInfos, answer \in OpaAnswers :
        CheckAuthorization(request, user_infos, answer)

SpecAuth == InitAuth /\ [][NextAuth]_vars

----------------------------------------------------------------------------
(* The application lifespan: the server runs the context manager up to its *)
(* yield before it serves, and resumes it when it shuts down               *)

MaxServed == 2

\* a lifespan that disposes of the engine before it yields
lifespan_DisposeBeforeYield ==
    <<"get_logger", "configure_flaat", "create_db_and_tables", "dispose_engine",
      "yield">>

\* the statements of lifespan(this_app)
lifespan ==
    <<"get_logger", "configure_flaat", "create_db_and_tables", "yield",
      "dispose_engine">>

InitLifespan ==
    /\ table = {}
    /\ clock = 0
    /\ nextId = 1
    /\ last = Call("none", NoItem, 0, Result({}, <<>>, "None", <<>>, 0), {})
    /\ pg = NoPage
    /\ flt = NoFilter
    /\ sess = NoSessions
    /\ resp = NoResponse
    /\ dialect = "sqlite"
    /\ authz = NoAuthorization
    /\ life = Lifespan(1, "startup", <<>>)
    /\ rd = NoReader

\* the number of requests served so far
Served(calls) == Cardinality({i \in 1..Len(calls) : calls[i] = "request"})

\* the next statement is a call: it returns, or, during startup, raises and
\* the application does not start
LifespanCall(raises) ==
    /\ life.phase \in {"startup", "shutdown"}
    /\ life.pc <= Len(lifespan)
    /\ lifespan[life.pc] # "yield"
    /\ raises => life.phase = "startup"
    /\ life' = Lifespan(life.pc + 1,
                        IF raises THEN "failed"
                        ELSE IF life.pc = Len(lifespan) THEN "stopped"
                        ELSE life.phase,
                        Append(life.calls, lifespan[life.pc]))
    /\ UNCHANGED <<table, clock, nextId, last, pg, flt, sess, resp, dialect, authz, rd>>

\* yield {"logger": logger}: startup is complete, the application serves
LifespanYield ==
    /\ life.phase = "startup"
    /\ life.pc <= Len(lifespan)
    /\ lifespan[life.pc] = "yield"
    /\ life' = Lifespan(life.pc + 1,
                        IF life.pc = Len(lifespan) THEN "stopped" ELSE "serving",
                        life.calls)
    /\ UNCHANGED <<table, clock, nextId, last, pg, flt, sess, resp, dialect, authz, rd>>

\* the application serves a POST /users/ while it is up
ServeCreateUser(user, new_id) ==
    /\ life.phase = "serving"
    /\ Served(life.calls) < MaxServed
    /\ LET r == create_user(table, NoUserInfos, user, new_id, clock)
       IN  /\ table' = r.res.table
           /\ last' = Call("add_item", user, new_id, r.res, table)
           /\ resp' = r.resp
    /\ life' = [life EXCEPT !.calls = Append(@, "request")]
    /\ UNCHANGED <<clock, nextId, pg, flt, sess, dialect, authz, rd>>

\* the application serves a DELETE /users/{user_id} while it is up
ServeRemoveUser(user_id) ==
    /\ life.phase = "serving"
    /\ Served(life.calls) < MaxServed
    /\ LET r == remove_user(table, user_id)
       IN  /\ table' = r.res.table
           /\ last' = Call("delete_item", NoItem, user_id, r.res, table)
           /\ resp' = r.resp
    /\ life' = [life EXCEPT !.calls = Append(@, "request")]
    /\ UNCHANGED <<clock, nextId, pg, flt, sess, dialect, authz, rd>>

\* the server shuts down: serving ends and the context manager is resumed
\* after its yield
LifespanShutdown ==
    /\ life.phase = "serving"
    /\ life' = [life EXCEPT !.phase = "shutdown"]
    /\ UNCHANGED <<table, clock, nextId, last, pg, flt, sess, resp, dialect, authz, rd>>

NextLifespan ==
    \/ \E raises \in BOOLEAN : LifespanCall(raises)
    \/ LifespanYield
    \/ \E user \in Items, new_id \in 1..MaxIds : ServeCreateUser(user, new_id)
    \/ \E user_id \in ItemIds : ServeRemoveUser(user_id)
    \/ LifespanShutdown

SpecLifespan == InitLifespan /\ [][NextLifespan]_vars

----------------------------------------------------------------------------
(* Concurrent requests: every request has its own Session (get_session),  *)
(* and add_item runs in each; the steps of different sessions interleave   *)

MaxSessions == 2

Sessions == 1..MaxSessions

\* a writer that does not wait for the write lock
MayWrite_NoLock(lock, s) == TRUE

\* the database lets one transaction write at a time: the INSERT of session
\* s waits while another session holds the write lock
MayWrite(lock, s) == lock \in {0, s}

InitConcurrent ==
    /\ table = {}
    /\ clock = 0
    /\ nextId = 1
    /\ last = Call("none", NoItem, 0, Result({}, <<>>, "None", <<>>, 0), {})
    /\ pg = NoPage
    /\ flt = NoFilter
    /\ sess = [lock |-> 0, s |-> [s \in Sessions |-> IdleSession]]
    /\ resp = NoResponse
    /\ dialect = "sqlite"
    /\ authz = NoAuthorization
    /\ life = NoLifespan
    /\ rd = NoReader

\* add_item up to session.add(db_item): the row gets its uuid4 id, nothing
\* is sent to the database
SessionAdd(s, item) ==
    /\ sess.s[s].pc = "idle"
    /\ LET vals == BoundValues(item)
           db_item == [id |-> s, sub |-> vals.sub, name |-> vals.name,
                       email |-> vals.email, issuer |-> vals.issuer,
                       created_at |-> clock]
       IN  sess' = [sess EXCEPT !.s[s] =
                      SessionState("added", item, db_item, <<>>, <<"add">>, "None", <<>>)]
    /\ UNCHANGED <<table, clock, nextId, last, pg, flt, resp, dialect, authz, life, rd>>

\* session.commit(), first half: the flush sends the INSERT; the database
\* checks the constraints against the committed rows and either keeps the
\* row in the open transaction or raises IntegrityError, upon which the
\* flush rolls the transaction back
SessionFlush(s) ==
    /\ sess.s[s].pc = "added"
    /\ MayWrite(sess.lock, s)
    /\ LET error == ConstraintFailure(table, BoundValues(sess.s[s].item))
       IN  IF error = <<>>
           THEN sess' = [sess EXCEPT !.lock = s, !.s[s].pc = "inserted"]
           ELSE sess' = [sess EXCEPT
                           !.s[s].pc = "integrity_error",
                           !.s[s].error = error,
                           !.s[s].calls = Append(@, "commit:IntegrityError")]
    /\ UNCHANGED <<table, clock, nextId, last, pg, flt, resp, dialect, authz, life, rd>>

\* session.commit(), second half: COMMIT makes the row visible and frees the
\* write lock; add_item returns db_item
SessionCommit(s) ==
    /\ sess.s[s].pc = "inserted"
    /\ table' = table \cup {sess.s[s].row}
    /\ sess' = [sess EXCEPT !.lock = IF @ = s THEN 0 ELSE @,
                            !.s[s].pc = "done",
                            !.s[s].calls = Append(@, "commit")]
    /\ UNCHANGED <<clock, nextId, last, pg, flt, resp, dialect, authz, life, rd>>

\* except IntegrityError: raise_from_integrity_error rolls the session back
\* and raises the domain error
SessionRaise(s) ==
    /\ sess.s[s].pc = "integrity_error"
    /\ LET e == raise_from_integrity_error(sess.s[s].item, sess.s[s].error)
       IN  sess' = [sess EXCEPT !.s[s].pc = "raised",
                               !.s[s].calls = Append(@, "rollback"),
                               !.s[s].exc = e.exc,
                               !.s[s].message = e.message]
    /\ UNCHANGED <<table, clock, nextId, last, pg, flt, resp, dialect, authz, life, rd>>

NextConcurrent ==
    \/ \E s \in Sessions, item \in Items : SessionAdd(s, item)
    \/ \E s \in Sessions : SessionFlush(s)
    \/ \E s \in Sessions : SessionCommit(s)
    \/ \E s \in Sessions : SessionRaise(s)

SpecConcurrent == InitConcurrent /\ [][NextConcurrent]_vars

----------------------------------------------------------------------------
(* A request running get_current_user next to requests that add and       *)
(* delete users: get_items sends its two statements one after the other,   *)
(* and each sees the rows committed when it runs                           *)

\* get_items up to items = session.exec(statement).all(), called by
\* get_current_user with skip=0, limit=1, sort="-created_at" and the token's
\* sub and iss
ReadPage(user_info) ==
    /\ rd.pc = "idle"
    /\ LET conditions == get_conditions(User, IdentityFilter(user_info))
           key == SortKey(<<"-", "created_at">>)
       IN  \E users \in ExecSelect(table, page_statement(conditions, 0, 1, key)) :
               rd' = Reader("page", user_info, users, 0, "None", 0)
    /\ UNCHANGED <<table, clock, nextId, last, pg, flt, sess, resp, dialect, authz, life>>

\* tot_items = session.exec(count statement).first()
ReadCount ==
    /\ rd.pc = "page"
    /\ LET conditions == get_conditions(User, IdentityFilter(rd.user_info))
           key == SortKey(<<"-", "created_at">>)
       IN  rd' = [rd EXCEPT !.pc = "count",
                            !.count = ExecCount(table,
                                          count_statement(conditions, 0, 1, key))]
    /\ UNCHANGED <<table, clock, nextId, last, pg, flt, sess, resp, dialect, authz, life>>

\* return None if count == 0 else users[0]: ret is the id of the user
\* returned, 0 for None; users[0] of an empty list raises IndexError
ReadReturn ==
    /\ rd.pc = "count"
    /\ rd' = [rd EXCEPT !.pc = "done",
                         !.exc = IF rd.count # 0 /\ rd.users = <<>>
                                 THEN "IndexError" ELSE "None",
                         !.ret = IF rd.count = 0 \/ rd.users = <<>> THEN 0
                                 ELSE rd.users[1].id]
    /\ UNCHANGED <<table, clock, nextId, last, pg, flt, sess, resp, dialect, authz, life>>

\* another request runs delete_item to its commit
CommittedDelete(item_id) ==
    /\ \E r \in table : r.id = item_id
    /\ table' = delete_item(table, item_id).table
    /\ UNCHANGED <<clock, nextId, last, pg, flt, sess, resp, dialect, authz, life, rd>>

NextRace ==
    \/ \E s \in Sessions, item \in Items : SessionAdd(s, item)
    \/ \E s \in Sessions : SessionFlush(s)
    \/ \E s \in Sessions : SessionCommit(s)
    \/ \E s \in Sessions : SessionRaise(s)
    \/ \E item_id \in Sessions : CommittedDelete(item_id)
    \/ \E user_info \in UserInfos : ReadPage(user_info)
    \/ ReadCount
    \/ ReadReturn

SpecRace == InitConcurrent /\ [][NextRace]_vars

----------------------------------------------------------------------------
(* The pagination assembler on its own: a PaginatedList built from any     *)
(* field values, whose computed properties are then evaluated              *)

InitPaging ==
    /\ table = {}
    /\ clock = 0
    /\ nextId = 1
    /\ last = Call("none", NoItem, 0, Result({}, <<>>, "None", <<>>, 0), {})
    /\ \E page_number \in 0..MaxPageNumber, page_size \in 0..MaxPageSize,
          tot_items \in 0..MaxTotItems, resource_url \in ResourceUrls :
           pg = PaginatedList(page_number, page_size, tot_items, resource_url)
    /\ flt = NoFilter
    /\ sess = NoSessions
    /\ resp = NoResponse
    /\ dialect = "sqlite"
    /\ authz = NoAuthorization
    /\ life = NoLifespan
    /\ rd = NoReader

\* PaginatedList.page: builds the Pagination, serialised with total_pages
EvalPage ==
    /\ pg.done = "none"
    /\ IF PaginationValid(pg.page_number, pg.page_size)
       THEN pg' = [pg EXCEPT !.done = "page",
                             !.total_pages = total_pages(pg.tot_items, pg.page_size)]
       ELSE pg' = [pg EXCEPT !.done = "page", !.exc = "ValidationError"]
    /\ UNCHANGED <<table, clock, nextId, last, flt, sess, resp, dialect, authz, life, rd>>

\* PaginatedList.links: self.page is built on the way
EvalLinks ==
    /\ pg.done = "none"
    /\ IF PaginationValid(pg.page_number, pg.page_size)
       THEN pg' = [pg EXCEPT !.done = "links",
                             !.total_pages = total_pages(pg.tot_items, pg.page_size),
                             !.links = links(pg.page_number, pg.page_size,
                                             pg.tot_items, pg.resource_url)]
       ELSE pg' = [pg EXCEPT !.done = "links", !.exc = "ValidationError"]
    /\ UNCHANGED <<table, clock, nextId, last, flt, sess, resp, dialect, authz, life, rd>>

NextPaging == EvalPage \/ EvalLinks

SpecPaging == InitPaging /\ [][NextPaging]_vars

----------------------------------------------------------------------------
(* The filter predicate builder on its own: get_conditions called with any  *)
(* keyword arguments                                                        *)

MaxFilters == 2

\* the keyword arguments a caller may pass: field names with and without a
\* suffix, the four reserved keys, values of every type (each value written
\* as text: get_conditions only looks at its type)
FilterArgs ==
    { [k |-> <<"name">>, v |-> StrVal(<<"b">>)],
      [k |-> <<"sub">>, v |-> StrVal(<<"s">>)],
      [k |-> <<"name", "_lte">>, v |-> StrVal(<<"b">>)],
      [k |-> <<"value">>, v |-> IntVal(<<"5">>)],
      [k |-> <<"value", "_gte">>, v |-> FloatVal(<<"1.5">>)],
      [k |-> <<"value", "_lte">>, v |-> IntVal(<<"10">>)],
      [k |-> <<"value">>, v |-> BoolVal(<<"True">>)],
      [k |-> <<"value">>, v |-> ListVal(<<"1", "2">>)],
      [k |-> <<"name">>, v |-> ListVal(<<"1", "2">>)],
      [k |-> <<"created_before">>, v |-> DateTimeVal(<<"T1">>)],
      [k |-> <<"created_before">>, v |-> StrVal(<<"b">>)],
      [k |-> <<"created_after">>, v |-> IntVal(<<"2">>)],
      [k |-> <<"updated_before">>, v |-> StrVal(<<"b">>)],
      [k |-> <<"updated_after">>, v |-> DateTimeVal(<<"T4">>)],
      [k |-> <<"created_by">>, v |-> StrVal(<<"1">>)] }

\* the filter fields of UserQuery with their validated types: its own sub,
\* name, email and issuer, and those inherited from CreationQuery; what
\* retrieve_users forwards is a subset of these, None values left out
UserQuery ==
    { [k |-> <<"sub">>, t |-> "str"],
      [k |-> <<"name">>, t |-> "str"],
      [k |-> <<"email">>, t |-> "str"],
      [k |-> <<"issuer">>, t |-> "str"],
      [k |-> <<"created_by">>, t |-> "str"],
      [k |-> <<"created_before">>, t |-> "datetime"],
      [k |-> <<"created_after">>, t |-> "datetime"] }

\* **kwargs: a key occurs once
Kwargs ==
    { kw \in UNION { [1..n -> FilterArgs] : n \in 0..MaxFilters } :
        \A i, j \in 1..Len(kw) : i # j => kw[i].k # kw[j].k }

InitFilter ==
    /\ table = {}
    /\ clock = 0
    /\ nextId = 1
    /\ last = Call("none", NoItem, 0, Result({}, <<>>, "None", <<>>, 0), {})
    /\ pg = NoPage
    /\ \E entity \in {User, DummyEntity}, kwargs \in Kwargs :
           flt = FilterCall(entity, kwargs)
    /\ sess = NoSessions
    /\ resp = NoResponse
    /\ dialect = "sqlite"
    /\ authz = NoAuthorization
    /\ life = NoLifespan
    /\ rd = NoReader

\* get_conditions(entity=..., **kwargs)
GetConditions ==
    /\ ~flt.done
    /\ LET n == Iterations(flt.entity, flt.kwargs)
           raised == IF n = 0 THEN "None"
                     ELSE ConditionRaises(flt.entity, flt.kwargs[n].k, flt.kwargs[n].v)
       IN  flt' = [flt EXCEPT
                     !.done = TRUE,
                     !.exc = raised,
                     !.emitted =
                         [i \in 1..Len(flt.kwargs) |->
                            IF i < n \/ (i = n /\ raised = "None")
                            THEN ConditionFor(flt.entity, flt.kwargs[i].k, flt.kwargs[i].v)
                            ELSE <<>>],
                     !.conditions =
                         IF raised = "None" THEN get_conditions(flt.entity, flt.kwargs)
                         ELSE <<>>]
    /\ UNCHANGED <<table, clock, nextId, last, pg, sess, resp, dialect, authz, life, rd>>

NextFilter == GetConditions

SpecFilter == InitFilter /\ [][NextFilter]_vars

----------------------------------------------------------------------------
(* Properties *)

HasCall(calls, c) == \E i \in 1..Len(calls) : calls[i] = c
CountCalls(calls, c) == Cardinality({i \in 1..Len(calls) : calls[i] = c})

\* the item carries a value in every field, as a validated UserCreate does
IsUser(item) == NullColumns(BoundValues(item)) = {}

\* some row of tbl has the (sub, issuer) the item would be stored with
PairTaken(tbl, item) ==
    \E r \in tbl : r.sub = item.sub /\ r.issuer = UrlStr(item.issuer)

\* C1: after any sequence of add_item, update_item and delete_item calls,
\* successful or failed, no two persisted User records have the same
\* (sub, issuer) pair.
C1_UniqueSubIssuerPair ==
    \A r1, r2 \in table :
        (r1.sub = r2.sub /\ r1.issuer = r2.issuer) => r1 = r2

\* a refused update next to two persisted users
C1_Witness ==
    /\ Cardinality(table) >= 2
    /\ last.op = "update_item"
    /\ last.exc = "ConflictError"

\* C2: add_item of a User whose (sub, issuer) pair is already persisted fails
\* with ConflictError; the session is rolled back, no commit completes and
\* the persisted records are those from before the call.
C2_DuplicateAddRefused ==
    (last.op = "add_item" /\ IsUser(last.item) /\ PairTaken(last.before, last.item))
        => /\ last.exc = "ConflictError"
           /\ HasCall(last.calls, "rollback")
           /\ ~HasCall(last.calls, "commit")
           /\ table = last.before

C2_Witness ==
    /\ last.op = "add_item"
    /\ IsUser(last.item)
    /\ PairTaken(last.before, last.item)
    /\ last.exc = "ConflictError"

\* C3: when inserting a User violates the (sub, issuer) uniqueness
\* constraint, the ConflictError message names both fields, sub and issuer,
\* and contains the attempted sub value, the attempted issuer value and the
\* text "already exists".
C3_ConflictMessageNamesBoth ==
    (last.op = "add_item" /\ last.exc = "ConflictError")
        => /\ Contains(last.message, <<"sub">>)
           /\ Contains(last.message, <<"issuer">>)
           /\ Contains(last.message, last.item.sub)
           /\ Contains(last.message, UrlStr(last.item.issuer))
           /\ Contains(last.message, <<"already exists">>)

\* C4: update_item on an id that matches no row raises NoItemToUpdateError,
\* never calls commit and leaves every persisted record unchanged.
C4_UpdateMissingId ==
    (last.op = "update_item" /\ ~\E r \in last.before : r.id = last.id)
        => /\ last.exc = "NoItemToUpdateError"
           /\ ~HasCall(last.calls, "commit")
           /\ table = last.before

C4_Witness ==
    /\ last.op = "update_item"
    /\ ~\E r \in last.before : r.id = last.id
    /\ last.before # {}
    /\ last.exc = "NoItemToUpdateError"

\* C5: on every failure path of add_item and update_item (NOT NULL
\* violation, UNIQUE violation, unrecognised storage failure, update of a
\* non-existent id) the session is rolled back before the error reaches the
\* caller; on success the session is committed exactly once.
C5_RollbackOnEveryFailure ==
    last.op \in {"add_item", "update_item"}
        => /\ last.exc # "None" =>
                  /\ HasCall(last.calls, "rollback")
                  /\ last.calls[Len(last.calls)] = "rollback"
           /\ last.exc = "None" => CountCalls(last.calls, "commit") = 1

\* C6: delete_item on an id that matches no row completes without error and
\* leaves the store unchanged; a second delete_item with the same id yields
\* the same store as the first, and after delete_item(id) no record with
\* that id exists.
C6_DeleteIdempotent ==
    last.op = "delete_item"
        => /\ last.exc = "None"
           /\ ~\E r \in table : r.id = last.id
           /\ (~\E r \in last.before : r.id = last.id) => table = last.before
           /\ delete_item(table, last.id).table = table
           /\ delete_item(table, last.id).exc = "None"

C6_Witness ==
    /\ last.op = "delete_item"
    /\ ~\E r \in last.before : r.id = last.id
    /\ Cardinality(table) >= 2

\* the filter as the list request states it: text filters are
\* case-insensitive containment, created_before / created_after bound
\* created_at
FilterMatches(kwargs, r) ==
    \A i \in 1..Len(kwargs) :
        LET k == kwargs[i].k
            v == kwargs[i].v.v
        IN  CASE k = <<"created_before">> -> r.created_at <= v
              [] k = <<"created_after">> -> r.created_at >= v
              [] OTHER -> Contains(LowerStr(r[k[1]]), LowerStr(v))

Matching(tbl, kwargs) == {r \in tbl : FilterMatches(kwargs, r)}

\* C7: for every store, filter, skip and limit, the total count returned by
\* get_items is the number of all records matching the filter, computed with
\* the predicate set of the page query and no offset or limit, so it does not
\* depend on page and size.
C7_TotalCount ==
    last.op = "get_items"
        => /\ last.tot_items = Cardinality(Matching(table, last.kwargs))
           /\ last.count_stmt.where = last.page_stmt.where
           /\ last.count_stmt.limit = -1
           /\ \A page \in 1..MaxPage, size \in 1..MaxSize :
                  \A res \in get_items(table, (page - 1) * size, size,
                                       last.sort, last.kwargs) :
                      res.tot_items = last.tot_items

\* a filtered page shorter than the count, the count smaller than the table
C7_Witness ==
    /\ last.op = "get_items"
    /\ last.kwargs # <<>>
    /\ Len(last.items) < last.tot_items
    /\ last.tot_items < Cardinality(table)

\* the sort of a list request as the request states it
SortField(sort) == IF Head(sort) = "-" THEN Tail(sort)[1] ELSE sort[1]
SortDescending(sort) == Head(sort) = "-"

\* a comes no later than b in the requested order
NotAfter(sort, a, b) ==
    IF SortDescending(sort) THEN ~Before(SortField(sort), a, b)
    ELSE ~Before(SortField(sort), b, a)

\* items is a page of the matching records: no record twice, in the
\* requested order, preceded by exactly skip matching records (or by all of
\* them when fewer remain) and followed by the rest
IsPageOf(items, match, sort, skip, size) ==
    LET n == Len(items)
        shown == {items[i] : i \in 1..n}
        rest == match \ shown
    IN  /\ shown \subseteq match
        /\ Cardinality(shown) = n
        /\ n <= size
        /\ \A i, j \in 1..n : i < j => NotAfter(sort, items[i], items[j])
        /\ \E skipped \in SUBSET rest :
               /\ Cardinality(skipped) = (IF n = 0 THEN Cardinality(match) ELSE skip)
               /\ n = 0 => Cardinality(match) <= skip
               /\ n < size => skipped = rest
               /\ \A a \in skipped : \A i \in 1..n : NotAfter(sort, a, items[i])
               /\ \A b \in rest \ skipped : \A i \in 1..n : NotAfter(sort, items[i], b)

\* C8 as stated: get_items returns the records matching the filter, ordered
\* by the sort field (descending iff the sort string starts with "-"), after
\* skipping (page-1)*size records and keeping at most size records; for a
\* filter matching N records and size k < N it returns k items while the
\* total count is N.
C8_PageOfSizeK ==
    last.op = "get_items"
        => LET match == Matching(table, last.kwargs)
           IN  /\ IsPageOf(last.items, match, last.sort,
                           (last.page - 1) * last.size, last.size)
               /\ last.size < Cardinality(match) =>
                      /\ Len(last.items) = last.size
                      /\ last.tot_items = Cardinality(match)

\* C8 amended: the page is as stated; for a filter matching N records it
\* holds min(k, max(0, N - (page-1)*k)) items, which is k whenever
\* page*k <= N (in particular on page 1 when k < N), and the total count is N.
C8_PageOfMatching ==
    last.op = "get_items"
        => LET match == Matching(table, last.kwargs)
               n == Cardinality(match)
               skip == (last.page - 1) * last.size
               left == IF n > skip THEN n - skip ELSE 0
           IN  /\ IsPageOf(last.items, match, last.sort, skip, last.size)
               /\ Len(last.items) = (IF left < last.size THEN left ELSE last.size)
               /\ last.page * last.size <= n => Len(last.items) = last.size
               /\ last.tot_items = n

\* a full second page of a descending list
C8_Witness ==
    /\ last.op = "get_items"
    /\ SortDescending(last.sort)
    /\ last.page = 2
    /\ Len(last.items) = last.size
    /\ last.tot_items >= last.page * last.size

\* C9: for all total_elements >= 0 and page_size >= 1, total_pages is
\* max(1, ceil(total_elements / page_size)): the least n >= 1 with
\* n * page_size >= total_elements; an empty result set reports 1 page and
\* total_pages is never 0.
C9_TotalPages ==
    (pg.done # "none" /\ pg.page_size >= 1 /\ pg.page_number >= 1)
        => /\ pg.exc = "None"
           /\ pg.total_pages >= 1
           /\ pg.total_pages * pg.page_size >= pg.tot_items
           /\ pg.total_pages > 1 => (pg.total_pages - 1) * pg.page_size < pg.tot_items
           /\ pg.tot_items = 0 => pg.total_pages = 1

C9_Witness ==
    /\ pg.done = "page"
    /\ pg.exc = "None"
    /\ pg.tot_items = 0
    /\ pg.page_size > 1
    /\ pg.total_pages = 1

\* the values of the page parameters of a link
PageParams(url) ==
    {url.query[i].v : i \in {j \in 1..Len(url.query) : url.query[j].k = "page"}}

\* the least n >= 1 with n * size >= total
PagesFor(total, size) ==
    CHOOSE n \in 1..(total + 1) :
        /\ n * size >= total
        /\ n > 1 => (n - 1) * size < total

\* C10: in PaginatedList.links, prev is absent when page_number <= 1 and
\* otherwise points at page_number - 1; next is absent when
\* page_number >= total_pages and otherwise points at page_number + 1.
C10_PrevNext ==
    (pg.done = "links" /\ pg.exc = "None")
        => /\ pg.page_number <= 1 => pg.links.prev = NoUrl
           /\ pg.page_number > 1 =>
                  /\ pg.links.prev # NoUrl
                  /\ PageParams(pg.links.prev) = {ToString(pg.page_number - 1)}
           /\ pg.page_number >= PagesFor(pg.tot_items, pg.page_size) =>
                  pg.links.next = NoUrl
           /\ pg.page_number < PagesFor(pg.tot_items, pg.page_size) =>
                  /\ pg.links.next # NoUrl
                  /\ PageParams(pg.links.next) = {ToString(pg.page_number + 1)}

\* a middle page of a URL that already carried page parameters
C10_Witness ==
    /\ pg.done = "links"
    /\ pg.exc = "None"
    /\ pg.page_number > 1
    /\ pg.page_number < pg.total_pages
    /\ PageParams(pg.resource_url) # {}
    /\ pg.links.prev # NoUrl
    /\ pg.links.next # NoUrl

\* the query parameters of a URL other than page, decoded, in order
OtherParams(url) == SelectSeq(parse_qsl(url.query), LAMBDA p : p.k # "page")

\* the number of page parameters of a URL
CountPage(url) == Len(SelectSeq(parse_qsl(url.query), LAMBDA p : p.k = "page"))

\* the link is resource_url with its page parameters replaced by one page
\* parameter of value n
IsLinkTo(link, resource_url, n) ==
    /\ link.base = resource_url.base
    /\ CountPage(link) = 1
    /\ PageParams(link) = {ToString(n)}
    /\ OtherParams(link) = OtherParams(resource_url)

\* C11: in PaginatedList.links, first carries page=1 and last carries
\* page=total_pages; every link carries exactly one page parameter (a page
\* parameter of resource_url is replaced, not duplicated) and every other
\* query parameter of resource_url is kept, with its value, in its place.
C11_FirstLastOnePage ==
    (pg.done = "links" /\ pg.exc = "None")
        => /\ IsLinkTo(pg.links.first, pg.resource_url, 1)
           /\ IsLinkTo(pg.links.last, pg.resource_url,
                       PagesFor(pg.tot_items, pg.page_size))
           /\ \A l \in {pg.links.prev, pg.links.next} :
                  l # NoUrl =>
                      /\ l.base = pg.resource_url.base
                      /\ CountPage(l) = 1
                      /\ OtherParams(l) = OtherParams(pg.resource_url)

\* the four links of a URL that carried two page parameters around a sort
\* parameter
C11_Witness ==
    /\ pg.done = "links"
    /\ pg.exc = "None"
    /\ CountPage(pg.resource_url) = 2
    /\ OtherParams(pg.resource_url) # <<>>
    /\ pg.total_pages > 2
    /\ pg.links.prev # NoUrl
    /\ pg.links.next # NoUrl
    /\ pg.links.last # pg.links.first

\* the reserved keys of a filter
ReservedKeys ==
    {<<"created_before">>, <<"created_after">>, <<"updated_before">>, <<"updated_after">>}

\* the field a non-reserved key names, and the comparison its suffix asks for
FieldOfKey(k) == k[1]
SuffixOp(k) ==
    IF Len(k) = 1 THEN "="
    ELSE IF k[2] = "_lte" THEN "<=" ELSE ">="

RECURSIVE Flatten(_)
Flatten(seqs) == IF seqs = <<>> THEN <<>> ELSE Head(seqs) \o Flatten(Tail(seqs))

\* the keys are supported: a text value comes with a key that names a
\* field, and a number with a key that names a field once its suffix is
\* stripped; the fields of the reserved keys present exist
KeysNameFields(entity, kwargs) ==
    \A i \in 1..Len(kwargs) :
        LET k == kwargs[i].k
            v == kwargs[i].v
        IN  CASE k \in {<<"created_before">>, <<"created_after">>} ->
                     "created_at" \in entity.columns
              [] k \in {<<"updated_before">>, <<"updated_after">>} ->
                     "updated_at" \in entity.columns
              [] v.t = "str" -> Len(k) = 1 /\ k[1] \in entity.columns
              [] OTHER -> k[1] \in entity.columns

\* C12: get_conditions emits, for each non-reserved key, a case-insensitive
\* containment predicate on the field named by the key when the value is a
\* string; for a number "<=" on the field with _lte stripped, ">=" on the
\* field with _gte stripped and "=" on the field otherwise; one predicate
\* per supported key, in the order of the keys, and nothing else.
C12_PredicatePerKey ==
    (flt.done /\ KeysNameFields(flt.entity, flt.kwargs)
       /\ \A i \in 1..Len(flt.kwargs) : flt.kwargs[i].v.t # "bool")
        => /\ flt.exc = "None"
           /\ flt.conditions = Flatten(flt.emitted)
           /\ \A i \in 1..Len(flt.kwargs) :
                  LET k == flt.kwargs[i].k
                      v == flt.kwargs[i].v
                  IN  k \notin ReservedKeys =>
                          CASE v.t = "str" ->
                                   flt.emitted[i] =
                                       <<Condition(FieldOfKey(k), "icontains", v.v)>>
                            [] v.t \in {"int", "float"} ->
                                   flt.emitted[i] =
                                       <<Condition(FieldOfKey(k), SuffixOp(k), v.v)>>
                            [] OTHER -> flt.emitted[i] = <<>>

\* a text filter followed by a suffixed numeric filter
C12_Witness ==
    /\ flt.done
    /\ flt.exc = "None"
    /\ Len(flt.kwargs) = 2
    /\ flt.kwargs[1].v.t = "str"
    /\ flt.kwargs[2].v.t = "float"
    /\ Len(flt.kwargs[2].k) = 2
    /\ Len(flt.conditions) = 2
    /\ flt.conditions[2].op = ">="

\* the column and comparison of a reserved key
ReservedField(k) ==
    IF k \in {<<"created_before">>, <<"created_after">>} THEN "created_at"
    ELSE "updated_at"
ReservedOp(k) ==
    IF k \in {<<"created_before">>, <<"updated_before">>} THEN "<=" ELSE ">="

\* C13: the four reserved keys yield exactly created_before ->
\* created_at <= v, created_after -> created_at >= v, updated_before ->
\* updated_at <= v, updated_after -> updated_at >= v, whatever the type of
\* the value (string, number or date), and never a containment or equality
\* predicate.
C13_ReservedKeys ==
    (flt.done /\ KeysNameFields(flt.entity, flt.kwargs))
        => /\ flt.exc = "None"
           /\ \A i \in 1..Len(flt.kwargs) :
                  LET k == flt.kwargs[i].k
                  IN  k \in ReservedKeys =>
                          /\ flt.emitted[i] =
                                 <<Condition(ReservedField(k), ReservedOp(k),
                                             flt.kwargs[i].v.v)>>
                          /\ flt.emitted[i][1].op \notin {"icontains", "="}
                          /\ \E j \in 1..Len(flt.conditions) :
                                 flt.conditions[j] = flt.emitted[i][1]

\* a reserved creation key with a text value next to a reserved update key
C13_Witness ==
    /\ flt.done
    /\ flt.exc = "None"
    /\ Len(flt.kwargs) = 2
    /\ flt.kwargs[1].k = <<"created_before">>
    /\ flt.kwargs[1].v.t = "str"
    /\ flt.kwargs[2].k = <<"updated_after">>
    /\ Len(flt.conditions) = 2
    /\ flt.conditions[2].col = "updated_at"

\* C14: for a non-reserved key whose value is neither text nor numeric (a
\* boolean, a list), get_conditions emits no predicate for that key and
\* raises no error.
C14_OtherTypesIgnored ==
    (flt.done /\ KeysNameFields(flt.entity, flt.kwargs))
        => /\ flt.exc = "None"
           /\ \A i \in 1..Len(flt.kwargs) :
                  (/\ flt.kwargs[i].k \notin ReservedKeys
                   /\ flt.kwargs[i].v.t \notin {"str", "int", "float"})
                      => flt.emitted[i] = <<>>

\* C15: add_item or update_item that hits a NOT NULL constraint on field f
\* fails with NotNullError whose message is "Attribute 'f' of User can't be
\* NULL", after exactly one rollback and with no commit; the table is left
\* as it was.
C15_NotNullError ==
    (/\ last.op \in {"add_item", "update_item"}
     /\ NullColumns(BoundValues(last.item)) # {}
     /\ last.op = "update_item" => \E r \in last.before : r.id = last.id)
        => /\ last.exc = "NotNullError"
           /\ \E i \in NullColumns(BoundValues(last.item)) :
                  last.message =
                      <<"Attribute '", NotNullOrder[i], "' of ", "U", "s", "e", "r",
                        " ", "can't be NULL">>
           /\ CountCalls(last.calls, "rollback") = 1
           /\ ~HasCall(last.calls, "commit")
           /\ table = last.before

\* an update of a stored record with a missing name
C15_Witness ==
    /\ last.op = "update_item"
    /\ \E r \in last.before : r.id = last.id
    /\ last.item.name = NoneVal
    /\ last.exc = "NotNullError"
    /\ HasCall(last.calls, "rollback")

\* C16: get_current_user returns a User only if that User's sub equals the
\* token's sub and its issuer equals the token's issuer, and returns None
\* when no persisted User has exactly that pair.
C16_CurrentUserExactPair ==
    last.op = "get_current_user"
        => LET sub == last.kwargs[1].v.v
               issuer == UrlStr(AnyHttpUrl(last.kwargs[2].v.v))
               exact == {r \in table : r.sub = sub /\ r.issuer = issuer}
           IN  /\ last.ret # 0 => \E r \in exact : r.id = last.ret
               /\ exact = {} => last.ret = 0

\* C17: the user endpoints map each domain error to a distinct client error
\* status carrying the error's message as detail: ConflictError -> 409,
\* NotNullError -> 422, NoItemToUpdateError -> 404, and GET of an id with no
\* record -> 404; no domain error is answered with a success status.
C17_ErrorStatus ==
    resp.endpoint # "none"
        => /\ last.exc = "ConflictError" =>
                  resp.status = 409 /\ resp.detail = last.message
           /\ last.exc = "NotNullError" =>
                  resp.status = 422 /\ resp.detail = last.message
           /\ last.exc = "NoItemToUpdateError" =>
                  resp.status = 404 /\ resp.detail = last.message
           /\ (resp.endpoint = "retrieve_user" /\ ~\E r \in table : r.id = last.id) =>
                  resp.status = 404 /\ resp.detail # <<>>
           /\ last.exc # "None" => resp.status \in 400..499
           /\ resp.status \in 200..299 =>
                  /\ last.exc = "None"
                  /\ resp.endpoint = "retrieve_user" => \E r \in table : r.id = last.id

\* an update of an id that is not stored, next to stored users
C17_Witness ==
    /\ resp.endpoint = "edit_user"
    /\ last.exc = "NoItemToUpdateError"
    /\ resp.status = 404
    /\ table # {}

\* C18: a successful update_item on id X sets sub, name, email and issuer of
\* record X to the values in new_data (all of them; a failed update sets
\* none), leaves X's id and created_at unchanged, and leaves every other
\* record unchanged.
C18_UpdateFrame ==
    last.op = "update_item"
        => /\ last.exc = "None" =>
                  \E old \in last.before :
                      /\ old.id = last.id
                      /\ table = (last.before \ {old}) \cup
                             { [id |-> old.id, created_at |-> old.created_at,
                                sub |-> last.item.sub, name |-> last.item.name,
                                email |-> last.item.email,
                                issuer |-> UrlStr(last.item.issuer)] }
           /\ last.exc # "None" => table = last.before

\* an update that changed name and issuer of one of two stored records, made
\* after the clock moved
C18_Witness ==
    /\ last.op = "update_item"
    /\ last.exc = "None"
    /\ Cardinality(table) = 2
    /\ table # last.before
    /\ \E new \in table : new.id = last.id /\ new.created_at < clock

\* two different sessions add validated users with the same (sub, issuer)
SamePair(a, b) ==
    /\ a # b
    /\ sess.s[a].pc # "idle"
    /\ sess.s[b].pc # "idle"
    /\ IsUser(sess.s[a].item)
    /\ IsUser(sess.s[b].item)
    /\ sess.s[a].row.sub = sess.s[b].row.sub
    /\ sess.s[a].row.issuer = sess.s[b].row.issuer

\* C19: when two add_item calls for Users with the same (sub, issuer) run
\* concurrently in separate sessions, in every interleaving at most one of
\* them commits a row, the other fails with ConflictError after its session
\* is rolled back, and the store never contains both rows.
C19_ConcurrentAdds ==
    \A a, b \in DOMAIN sess.s :
        SamePair(a, b)
            => /\ ~(sess.s[a].pc = "done" /\ sess.s[b].pc = "done")
               /\ ~(sess.s[a].row \in table /\ sess.s[b].row \in table)
               /\ sess.s[a].pc = "done" =>
                      sess.s[b].pc \in {"added", "integrity_error", "raised"}
               /\ sess.s[b].pc = "raised" =>
                      /\ sess.s[b].exc = "ConflictError"
                      /\ sess.s[b].calls[Len(sess.s[b].calls)] = "rollback"
                      /\ ~HasCall(sess.s[b].calls, "commit")
                      /\ sess.s[b].row \notin table

\* one session committed its row, the other raised
C19_Witness ==
    \E a, b \in DOMAIN sess.s :
        /\ SamePair(a, b)
        /\ sess.s[a].pc = "done"
        /\ sess.s[b].pc = "raised"
        /\ sess.s[b].exc = "ConflictError"
        /\ sess.s[a].row \in table

\* C20: after any sequence of repository operations, ids are unique across
\* the persisted records of the user table and every persisted record has a
\* created_at; a successful add_item returns the persisted entity carrying
\* the id under which it was stored.
C20_IdsUnique ==
    /\ \A r1, r2 \in table : r1.id = r2.id => r1 = r2
    /\ \A r \in table : r.created_at \in Nat
    /\ (last.op = "add_item" /\ last.exc = "None")
           => /\ last.ret = last.id
              /\ ~\E r \in last.before : r.id = last.ret
              /\ \E r \in table :
                     /\ r.id = last.ret
                     /\ table = last.before \cup {r}
                     /\ r.sub = last.item.sub
                     /\ r.name = last.item.name
                     /\ r.email = last.item.email
                     /\ r.issuer = UrlStr(last.item.issuer)

\* an insert refused because uuid4 returned an id that is stored, next to
\* two stored records
C20_Witness ==
    /\ Cardinality(table) = 2
    /\ last.op = "add_item"
    /\ last.exc = "ConflictError"
    /\ \E r \in last.before : r.id = last.id
    /\ ~PairTaken(last.before, last.item)

\* C21: a POST /users/ without a body that is answered 201 stored exactly one
\* new row whose sub, issuer, name and email are the subject, the issuer and
\* the user info of the token, and answers with the id of that row; and a
\* request whose token carries a name and an email and whose row breaks no
\* constraint is answered 201
C21_CreatedFromToken ==
    (resp.endpoint = "create_user" /\ ~last.user_infos.none) =>
        LET t == last.user_infos
            created == table \ last.before
            fits == /\ t.name # Missing /\ t.email # Missing
                    /\ t.name # NoneVal
                    /\ \A r \in last.before :
                           r.id # last.id /\ ~(r.sub = t.sub /\ r.issuer = t.iss)
        IN  /\ resp.status = 201 =>
                /\ \E r \in created :
                       /\ created = {r}
                       /\ r.sub = t.sub /\ r.issuer = t.iss
                       /\ r.name = t.name /\ r.email = t.email
                       /\ resp.body = r.id
                /\ last.before \subseteq table
            /\ fits => resp.status = 201

C21_Witness ==
    /\ resp.endpoint = "create_user" /\ ~last.user_infos.none
    /\ resp.status = 201
    /\ \E r \in table \ last.before : r.issuer = <<"https://", "i">>
    /\ last.before # {}

\* the text of the IntegrityError the statement of call c raised
RaisedError(c) ==
    IF c.op = "add_item"
    THEN LET failure == ConstraintFailure(c.before, BoundValues(c.item))
         IN  IF failure # <<>> THEN failure
             ELSE IntegrityErrorArgs(UniquePrefix, <<"id">>)
    ELSE ConstraintFailure({r \in c.before : r.id # c.id}, BoundValues(c.item))

RaisedIntegrityError(c) ==
    HasCall(c.calls, "commit:IntegrityError") \/ HasCall(c.calls, "exec:IntegrityError")

MatchesNeither(error) ==
    /\ \A i \in 1..Len(error) : error[i] # NotNullPrefix
    /\ \A i \in 1..Len(error) : error[i] # UniquePrefix

C26_EditSuccessMeansCommitted ==
    resp.endpoint = "edit_user"
        => /\ resp.status = 204 =>
                  /\ HasCall(last.calls, "commit")
                  /\ \E r \in table :
                         /\ r.id = last.id
                         /\ r.sub = last.item.sub
                         /\ r.name = last.item.name
                         /\ r.email = last.item.email
                         /\ r.issuer = UrlStr(last.item.issuer)
           /\ (RaisedIntegrityError(last)
                  \/ ~\E r \in last.before : r.id = last.id)
                  => resp.status \in 400..599

\* the OPA server answered: requests.post returned a response
Answered == authz.contacted /\ authz.answer.raises = "None"

\* C23: with AUTHZ_MODE = opa the request proceeds only if OPA answered 200
\* with result.allow true; a 200 answer with allow false or without a result
\* raises 401; an answer of 400, 500 or any other status raises 500. With
\* AUTHZ_MODE unset every request proceeds and OPA is not contacted.
C23_OpaDecides ==
    authz.outcome.kind # "none"
        => /\ authz.mode = "opa" =>
                /\ authz.outcome.kind = "return" =>
                       /\ Answered
                       /\ authz.answer.status_code = 200
                       /\ authz.answer.json = [result |-> "present", allow |-> "true"]
                /\ (/\ Answered
                     /\ authz.answer.status_code = 200
                     /\ \/ authz.answer.json.result = "absent"
                        \/ authz.answer.json.allow = "false")
                       => authz.outcome.kind = "HTTPException"
                          /\ authz.outcome.status_code = 401
                /\ (Answered /\ authz.answer.status_code # 200)
                       => authz.outcome.kind = "HTTPException"
                          /\ authz.outcome.status_code = 500
           /\ authz.mode = "None" =>
                authz.outcome.kind = "return" /\ ~authz.contacted

C23_Witness ==
    /\ authz.mode = "opa"
    /\ Answered
    /\ authz.answer.status_code = 200
    /\ authz.answer.json.result = "absent"
    /\ authz.outcome.status_code = 401

\* C24: when the OPA server cannot be reached, because the request timed out
\* or the connection failed, check_opa_authorization raises an HTTPException
\* 500 with detail 'Authentication failed: OPA server is not reachable' and
\* the request does not proceed
C24_OpaUnreachable ==
    (authz.contacted
     /\ authz.answer.raises \in {"requests.ReadTimeout", "requests.ConnectTimeout",
                                 "requests.ConnectionError"})
        => authz.outcome =
               Outcome("HTTPException", 500,
                       <<"Authentication failed: OPA server is not reachable">>)

Startup == <<"get_logger", "configure_flaat", "create_db_and_tables">>

\* C25: get_logger, configure_flaat and create_db_and_tables each run exactly
\* once, in that order, before the application serves its first request;
\* dispose_engine runs at most once, only after the serving phase has ended,
\* and exactly once when the lifespan has run to its end
C25_LifespanOrder ==
    /\ (life.phase \in {"serving", "shutdown", "stopped"}
           \/ HasCall(life.calls, "request"))
          => /\ Len(life.calls) >= 3
             /\ SubSeq(life.calls, 1, 3) = Startup
             /\ \A i \in 1..3 : CountCalls(life.calls, Startup[i]) = 1
    /\ \A i \in 1..Len(life.calls) :
          life.calls[i] = "dispose_engine"
              => /\ i > 3
                 /\ i = Len(life.calls)
                 /\ life.phase = "stopped"
    /\ CountCalls(life.calls, "dispose_engine") <= 1
    /\ life.phase = "stopped" => CountCalls(life.calls, "dispose_engine") = 1
    /\ life.phase = "serving" => ~HasCall(life.calls, "dispose_engine")

C25_Witness ==
    /\ life.phase = "stopped"
    /\ CountCalls(life.calls, "request") = 2
    /\ life.calls[Len(life.calls)] = "dispose_engine"

\* the keyword arguments are ones a validated UserQuery can give
PassedValidation(kwargs) ==
    \A i \in 1..Len(kwargs) : [k |-> kwargs[i].k, t |-> kwargs[i].v.t] \in UserQuery

\* C27: for the filters a validated UserQuery forwards, get_conditions on the
\* User table raises nothing and every predicate it builds is on a column
\* the table has
C27_QueryKeysAreColumns ==
    (flt.done /\ flt.entity = User /\ PassedValidation(flt.kwargs))
        => /\ flt.exc = "None"
           /\ \A i \in 1..Len(flt.conditions) : flt.conditions[i].col \in User.columns

\* every link that is present carries a page within 1..n
LinksWithin(ls, n) ==
    \A f \in {"first", "prev", "next", "last"} :
        ls[f] # NoUrl =>
            /\ PageParams(ls[f]) # {}
            /\ PageParams(ls[f]) \subseteq {ToString(m) : m \in 1..n}

\* C28 as stated: for every page_number >= 1, page_size >= 1 and
\* total_elements >= 0, every link present in PaginatedList.links targets a
\* page within 1..total_pages
C28_LinksInRange ==
    (pg.done = "links" /\ pg.exc = "None")
        => LinksWithin(pg.links, PagesFor(pg.tot_items, pg.page_size))

\* C28 amended: the same for every page_number in 1..total_pages + 1; past
\* that, prev targets page_number - 1, which lies beyond the last page
C28_LinksInRangeUpToLast ==
    (pg.done = "links" /\ pg.exc = "None")
        => LET tp == PagesFor(pg.tot_items, pg.page_size)
           IN  /\ pg.page_number <= tp + 1 => LinksWithin(pg.links, tp)
               /\ pg.page_number > tp + 1 =>
                      /\ PageParams(pg.links.prev) = {ToString(pg.page_number - 1)}
                      /\ LinksWithin([pg.links EXCEPT !.prev = NoUrl], tp)

C28_Witness ==
    /\ pg.done = "links"
    /\ pg.exc = "None"
    /\ pg.page_number = pg.total_pages + 1
    /\ pg.total_pages > 1
    /\ pg.links.prev # NoUrl
    /\ pg.links.next = NoUrl

\* the item lists get_items may return for page p
PageItems(tbl, p, size, sort, kwargs) ==
    { res.items : res \in get_items(tbl, (p - 1) * size, size, sort, kwargs) }

RECURSIVE Concatenations(_, _, _, _, _, _)
\* the concatenations of the items of pages p..tp
Concatenations(tbl, p, tp, size, sort, kwargs) ==
    IF p > tp THEN {<<>>}
    ELSE { a \o b : a \in PageItems(tbl, p, size, sort, kwargs),
                    b \in Concatenations(tbl, p + 1, tp, size, sort, kwargs) }

\* the values of the sort field are pairwise distinct among the rows
DistinctSortValues(rows, sort) ==
    \A a, b \in rows : a # b => a[SortField(sort)] # b[SortField(sort)]

\* C29: for the store, filter, sort and size of a list request whose sort
\* field has pairwise distinct values among the matching records, the
\* concatenation of the items of pages 1..total_pages lists every matching
\* record exactly once, in sort order, and every page beyond total_pages is
\* empty
C29_PagesPartition ==
    (last.op = "get_items" /\ DistinctSortValues(Matching(table, last.kwargs), last.sort))
        => LET match == Matching(table, last.kwargs)
               n == Cardinality(match)
               tp == PagesFor(last.tot_items, last.size)
           IN  /\ last.items \in PageItems(table, last.page, last.size,
                                            last.sort, last.kwargs)
               /\ \A c \in Concatenations(table, 1, tp, last.size,
                                           last.sort, last.kwargs) :
                      /\ Len(c) = n
                      /\ {c[i] : i \in 1..n} = match
                      /\ \A i, j \in 1..n : i < j =>
                             /\ c[i] # c[j]
                             /\ NotAfter(last.sort, c[i], c[j])
               /\ \A p \in (tp + 1)..(tp + 2) :
                      PageItems(table, p, last.size, last.sort, last.kwargs) = {<<>>}

C29_Witness ==
    /\ last.op = "get_items"
    /\ DistinctSortValues(Matching(table, last.kwargs), last.sort)
    /\ Cardinality(Matching(table, last.kwargs)) >= 2
    /\ last.size = 1
    /\ last.page = 2
    /\ SortDescending(last.sort)
    /\ Len(last.items) = 1

\* C30: in every interleaving with committed inserts and deletes,
\* get_current_user returns None or the user its page query found, and never
\* fails by taking users[0] of an empty list while the count is non-zero
C30_CurrentUserNeverFails ==
    rd.pc = "done"
        => /\ rd.exc = "None"
           /\ rd.ret = 0 \/ (rd.users # <<>> /\ rd.ret = rd.users[1].id)

====
